---------------------------- MODULE Spec2Model ----------------------------
(***************************************************************************)
(* Model of the document ingestion and retrieval-augmented answering       *)
(* pipeline: the chunker, the batch embedding generator, the namespace     *)
(* derivation, the rate-limited upload handler and the QA / search         *)
(* handlers.                                                               *)
(*                                                                         *)
(* Strings are sequences of one-character strings; JavaScript indices are  *)
(* 0-based, so JS index i is element i + 1 of the sequence.                *)
(***************************************************************************)
EXTENDS Integers, Sequences, FiniteSets, TLC

VARIABLES
    chunker,      \* one call of chunkText: its arguments and its result
    embedder,     \* one call of generateEmbeddingsBatch
    normalizer,   \* one namespace derivation in each of the three handlers
    documents,    \* metadata store, collection "documents"
    chunkRecords, \* metadata store, collection "chunks"
    vectorStore,  \* vector index: the records upserted, per namespace
    blobs,        \* blob store: the document ids whose file was uploaded
    request,      \* the last request handled and what it did
    limiter,      \* the rate-limit table of one endpoint, and the clock
    tokens,       \* the token cache of one endpoint, and the clock
    labelRequests,\* the label requests in flight
    ocr,          \* one call of ocrWithGemini and the remote files
    extraction,   \* the extraction stage of one upload
    indexer,      \* one call of ensurePineconeIndex
    ranking       \* one document search: the matches and the results

vars == <<chunker, embedder, normalizer, documents, chunkRecords,
          vectorStore, blobs, request, limiter, tokens, labelRequests, ocr,
          extraction, indexer, ranking>>

(***************************************************************************)
(* Bounds of the model.                                                    *)
(***************************************************************************)
MaxTextLen == 4
MaxChunkSize == 3
MaxOverlap == 3
MaxChunks == 4
MaxBatchSize == 3
MaxNameLen == 3
MaxRequests == 2
MaxQueryRecords == 3

(***************************************************************************)
(* Integer and sequence helpers.                                           *)
(***************************************************************************)
Min(a, b) == IF a < b THEN a ELSE b

Max(a, b) == IF a > b THEN a ELSE b

SetMin(S) == CHOOSE x \in S : \A y \in S : x <= y

SetMax(S) == CHOOSE x \in S : \A y \in S : x >= y

RECURSIVE StringsUpTo(_, _)
StringsUpTo(alphabet, n) ==
    IF n = 0 THEN {<<>>}
    ELSE LET shorter == StringsUpTo(alphabet, n - 1)
         IN shorter \cup {Append(s, c) : s \in shorter, c \in alphabet}

(***************************************************************************)
(* JavaScript string primitives.                                           *)
(***************************************************************************)
\* String.prototype.slice(begin, end): a negative index counts from the end
\* of the string, every index is clamped to [0, length], and an empty range
\* yields the empty string.
JsSlice(s, begin, end) ==
    LET len == Len(s)
        from == IF begin < 0 THEN Max(len + begin, 0) ELSE Min(begin, len)
        to == IF end < 0 THEN Max(len + end, 0) ELSE Min(end, len)
    IN IF from >= to THEN <<>> ELSE SubSeq(s, from + 1, to)

\* The characters \s matches and trim() removes; "NL" is the line feed.
IsSpace(c) == c \in {" ", "NL"}

\* String.prototype.trim()
JsTrim(s) ==
    LET solid == {i \in 1..Len(s) : ~IsSpace(s[i])}
    IN IF solid = {} THEN <<>> ELSE SubSeq(s, SetMin(solid), SetMax(solid))

\* slice.match(/[.!?]\s/): the 0-based index of the first match, -1 for null.
MatchSentenceEnd(slice) ==
    LET hits == {i \in 0..(Len(slice) - 2) :
                    slice[i + 1] \in {".", "!", "?"} /\ IsSpace(slice[i + 2])}
    IN IF hits = {} THEN -1 ELSE SetMin(hits)

\* slice.indexOf("\n\n")
IndexOfParagraph(slice) ==
    LET hits == {i \in 0..(Len(slice) - 2) :
                    slice[i + 1] = "NL" /\ slice[i + 2] = "NL"}
    IN IF hits = {} THEN -1 ELSE SetMin(hits)

(***************************************************************************)
(* chunkText of the rate-limited upload handler.                           *)
(***************************************************************************)
LookAheadMax == 100

LookBehind == 50

\* The boundary snap of one window: `end' is Math.min(start + chunkSize,
\* text.length).
SnapEnd(text, end) ==
    IF end < Len(text)
    THEN LET lookAhead == Min(LookAheadMax, Len(text) - end)
             slice == JsSlice(text, end - LookBehind, end + lookAhead)
             sentenceEnd == MatchSentenceEnd(slice)
             paraEnd == IndexOfParagraph(slice)
         IN IF sentenceEnd # -1 /\ sentenceEnd < lookAhead
            THEN end - LookBehind + sentenceEnd + 1
            ELSE IF paraEnd # -1 /\ paraEnd < lookAhead
                 THEN end - LookBehind + paraEnd
                 ELSE end
    ELSE end

\* start = Math.max(end - overlap, start + 1)
NextStart(start, end, overlap) == Max(end - overlap, start + 1)

\* One iteration of the while loop of chunkText, from the loop's `start' and
\* the chunks pushed so far: the chunks and `start' after it, and whether the
\* loop has ended.  Each chunk carries the fields of the Chunk interface and,
\* for the statements about windows, the iteration's `end'.
ChunkIteration(text, baseMetadata, docId, chunkSize, overlap, start, chunks) ==
    IF ~(start < Len(text))
    THEN [chunks |-> chunks, start |-> start, ended |-> TRUE]
    ELSE LET end == SnapEnd(text, Min(start + chunkSize, Len(text)))
             content == JsTrim(JsSlice(text, start, end))
             pushed == Append(chunks,
                              [content |-> content,
                               metadata |-> [doc_id |-> docId] @@ baseMetadata,
                               chunk_id |-> Len(chunks),
                               start_char |-> start,
                               end |-> end])
             next == NextStart(start, end, overlap)
         IN IF Len(content) = 0
            THEN [chunks |-> chunks, start |-> start, ended |-> TRUE]
            ELSE [chunks |-> pushed, start |-> next, ended |-> next >= Len(text)]

\* The guard at the head of chunkText: a blank text yields no chunk.
ChunkTextReturnsEarly(text) == Len(text) = 0 \/ Len(JsTrim(text)) = 0

(***************************************************************************)
(* generateEmbeddingsBatch.  The embedding provider is a function of the   *)
(* text that may throw on any call: failFirst[i] says that the call issued *)
(* for chunk i inside Promise.all rejects, failRetry[i] that the           *)
(* individual call issued for chunk i in the fallback loop throws.         *)
(***************************************************************************)
IndexDimension == 768

ZeroVectorLength == 768

\* result.embedding.values of embeddingModel.embedContent(text)
ProviderEmbedding(text) ==
    [length |-> IndexDimension, values |-> <<"embedding", text>>]

\* new Array(768).fill(0)
ZeroVector == [length |-> ZeroVectorLength, values |-> <<"zeros">>]

\* One batch whose fallback gives up on the whole batch.
EmbedOneBatchAllZero(batch, failFirst, failRetry) ==
    IF \E j \in 1..Len(batch) : failFirst[j]
    THEN [j \in 1..Len(batch) |-> ZeroVector]
    ELSE [j \in 1..Len(batch) |-> ProviderEmbedding(batch[j].content)]

\* The body of the for loop: what one batch pushes onto `embeddings'.
EmbedOneBatch(batch, failFirst, failRetry) ==
    IF \E j \in 1..Len(batch) : failFirst[j]
    THEN [j \in 1..Len(batch) |->
             IF failRetry[j] THEN ZeroVector
             ELSE ProviderEmbedding(batch[j].content)]
    ELSE [j \in 1..Len(batch) |-> ProviderEmbedding(batch[j].content)]

\* chunks.slice(i, i + batchSize), for a sequence
SliceSeq(seq, i, j) == SubSeq(seq, i + 1, Min(j, Len(seq)))

RECURSIVE EmbedFrom(_, _, _, _, _, _)
EmbedFrom(chunks, batchSize, failFirst, failRetry, i, embeddings) ==
    IF ~(i < Len(chunks)) THEN embeddings
    ELSE EmbedFrom(chunks, batchSize, failFirst, failRetry, i + batchSize,
                   embeddings \o EmbedOneBatch(SliceSeq(chunks, i, i + batchSize),
                                               SliceSeq(failFirst, i, i + batchSize),
                                               SliceSeq(failRetry, i, i + batchSize)))

generateEmbeddingsBatch(chunks, batchSize, failFirst, failRetry) ==
    EmbedFrom(chunks, batchSize, failFirst, failRetry, 0, <<>>)

(***************************************************************************)
(* Namespace derivation, as each handler writes it:                        *)
(*   x.trim().toLowerCase().replace(/[^a-z0-9_-]+/g, "-")                  *)
(***************************************************************************)
LowerLetters ==
    {"a", "b", "c", "d", "e", "f", "g", "h", "i", "j", "k", "l", "m",
     "n", "o", "p", "q", "r", "s", "t", "u", "v", "w", "x", "y", "z"}

Digits == {"0", "1", "2", "3", "4", "5", "6", "7", "8", "9"}

\* The characters the class [a-z0-9_-] holds.
IsNamespaceSafe(c) == c \in LowerLetters \cup Digits \cup {"_", "-"}

\* String.prototype.toLowerCase(), on the upper-case letters the model uses.
LowerOf(c) == IF c = "A" THEN "a" ELSE IF c = "B" THEN "b" ELSE c

JsToLowerCase(s) == [i \in 1..Len(s) |-> LowerOf(s[i])]

\* s.replace(/[^a-z0-9_-]+/g, "-"): every maximal run of characters outside
\* the class becomes one "-": a safe character stays, the first character
\* of a run becomes "-", the further characters of the run are dropped.
JsReplaceUnsafeRuns(s) ==
    LET replaced == [i \in 1..Len(s) |->
                        IF IsNamespaceSafe(s[i]) THEN s[i]
                        ELSE IF i > 1 /\ ~IsNamespaceSafe(s[i - 1]) THEN "dropped"
                        ELSE "-"]
        Stays(c) == c # "dropped"
    IN SelectSeq(replaced, Stays)

DefaultCase == <<"d", "e", "f", "a", "u", "l", "t", "-", "c", "a", "s", "e">>

\* a || b for strings and undefined: the empty string is falsy.
Undefined == <<"undefined">>

IsTruthy(v) == v # Undefined /\ v # <<>>

Field(obj, key) == IF key \in DOMAIN obj THEN obj[key] ELSE Undefined

\* A metadata value that is a JSON number, not a string: typeof v !== 'string'.
NumberValue == <<"number">>

IsJsString(v) == v # Undefined /\ v # NumberValue

\* Upload handler: metadata.caseName || metadata.case_name || "default-case"
UploadCaseName(metadata) ==
    IF IsTruthy(Field(metadata, "caseName")) THEN metadata["caseName"]
    ELSE IF IsTruthy(Field(metadata, "case_name")) THEN metadata["case_name"]
    ELSE DefaultCase

UploadNamespace(metadata) ==
    JsReplaceUnsafeRuns(JsToLowerCase(JsTrim(UploadCaseName(metadata))))

\* A QA derivation that keeps the case of the collection name.
QANamespaceKeepingCase(rawCollectionName) ==
    JsReplaceUnsafeRuns(JsTrim(rawCollectionName))

\* QA handler
QANamespace(rawCollectionName) ==
    JsReplaceUnsafeRuns(JsToLowerCase(JsTrim(rawCollectionName)))

\* Document search handler
SearchNamespace(rawCaseName) ==
    JsReplaceUnsafeRuns(JsToLowerCase(JsTrim(rawCaseName)))

(***************************************************************************)
(* The rate-limited upload handler (POST).  One request runs from its      *)
(* first line to its response; what the outside world decides is an input  *)
(* of the request: who calls, the metadata object, whether the direct      *)
(* extraction is too short (so that OCR runs), how many chunks chunkText   *)
(* makes of the text, and `fail', the first step that fails ("none" when   *)
(* every step succeeds), with the failing batch for a failing upsert.      *)
(***************************************************************************)
UpsertBatchSize == 100

\* fullText.trim().length < 100 sends the file to OCR.
OcrThreshold == 100

\* !fullText || fullText.trim().length < 100, for the trimmed length of the
\* directly extracted text.
NeedsOcr(directLength) == directLength < OcrThreshold

\* The steps of the handler, in the order of the code.
UploadSteps ==
    <<"auth", "rateLimit", "validation", "blobUpload", "extractText",
      "writeTempFile", "ocr", "blankText", "noChunks", "embed", "getDatabase",
      "ensureIndex", "insertDocument", "insertChunks", "upsert">>

\* The place of a step in the handler; "none", no failure, lies behind all.
StepNo(step) ==
    IF step = "none" THEN Len(UploadSteps) + 1
    ELSE CHOOSE i \in 1..Len(UploadSteps) : UploadSteps[i] = step

\* The handler gets past `step': the first failure, if any, comes later.
Passes(fail, step) == StepNo(fail) > StepNo(step)

\* The handler gets to `step': nothing before it fails.
Reaches(fail, step) == StepNo(fail) >= StepNo(step)

\* Number of upsert batches of n vectors: for (i = 0; i < n; i += batchSize)
UpsertBatches(n) == (n + UpsertBatchSize - 1) \div UpsertBatchSize

\* chunk.metadata: { ...metadata, source, file_url, doc_id }
ChunkMetadata(metadata, docId) ==
    [doc_id |-> docId, source |-> "file", file_url |-> <<"url", docId>>] @@ metadata

\* The metadata of the vector of chunk i: the handler's fields, overridden by
\* the spread of chunk.metadata that follows them.
VectorMetadata(chunkMetadata, docId, userId, i) ==
    chunkMetadata @@ [content |-> <<"chunk", docId, i>>, docId |-> docId,
                      chunkId |-> i, uploadedBy |-> userId]

\* One upsert call: the vectors of chunks first..last of the document.
UpsertBatch(namespace, docId, userId, chunkMetadata, k, n) ==
    [namespace |-> namespace, docId |-> docId, uploadedBy |-> userId,
     chunkMetadata |-> chunkMetadata,
     first |-> k * UpsertBatchSize,
     last |-> Min((k + 1) * UpsertBatchSize, n) - 1]

\* The batches whose upsert succeeded.
UpsertedBatches(fail, failBatch, n) ==
    IF fail = "none" THEN 0..(UpsertBatches(n) - 1)
    ELSE IF fail = "upsert" THEN 0..(failBatch - 1)
    ELSE {}

\* A handler that removes the temporary file at the end of the try block
\* only.
UploadCallsUnlinkOnSuccess(fail, failBatch, needsOcr, n) ==
    LET Call(step) == IF Reaches(fail, step) THEN <<[op |-> step, arg |-> <<>>]>> ELSE <<>>
        upserts == IF Reaches(fail, "upsert")
                   THEN [k \in 1..(IF fail = "upsert" THEN failBatch + 1
                                   ELSE UpsertBatches(n)) |->
                            [op |-> "upsert", arg |-> <<k - 1>>]]
                   ELSE <<>>
    IN Call("blobUpload") \o Call("extractText")
       \o (IF needsOcr THEN Call("writeTempFile") \o Call("ocr") ELSE <<>>)
       \o Call("embed") \o Call("getDatabase") \o Call("ensureIndex")
       \o Call("insertDocument") \o Call("insertChunks") \o upserts
       \o (IF needsOcr /\ fail = "none"
           THEN <<[op |-> "unlinkTempFile", arg |-> <<>>]>> ELSE <<>>)

\* The external calls the request makes, in order.
UploadCalls(fail, failBatch, needsOcr, n) ==
    LET Call(step) == IF Reaches(fail, step) THEN <<[op |-> step, arg |-> <<>>]>> ELSE <<>>
        upserts == IF Reaches(fail, "upsert")
                   THEN [k \in 1..(IF fail = "upsert" THEN failBatch + 1
                                   ELSE UpsertBatches(n)) |->
                            [op |-> "upsert", arg |-> <<k - 1>>]]
                   ELSE <<>>
    IN Call("blobUpload") \o Call("extractText")
       \o (IF needsOcr THEN Call("writeTempFile") \o Call("ocr") ELSE <<>>)
       \o Call("embed") \o Call("getDatabase") \o Call("ensureIndex")
       \o Call("insertDocument") \o Call("insertChunks") \o upserts
       \o (IF needsOcr /\ Reaches(fail, "writeTempFile")
           THEN <<[op |-> "unlinkTempFile", arg |-> <<>>]>> ELSE <<>>)

UploadStatus(fail) ==
    IF fail = "none" THEN 200
    ELSE IF fail = "auth" THEN 401
    ELSE IF fail = "rateLimit" THEN 429
    ELSE IF fail = "validation" THEN 400
    ELSE 500

\* The JSON body: the document id on success, the error otherwise.
UploadBody(fail, docId, n) ==
    IF fail = "none" THEN [success |-> TRUE, docId |-> docId, chunks |-> n]
    ELSE [error |-> fail]

(***************************************************************************)
(* The QA handler and the answering search handler.  A request's inputs    *)
(* are the caller, the raw collection name, the match list the vector      *)
(* query returns and `fail', the first step that fails.                    *)
(***************************************************************************)
QATopK == 15

QAContextLimit == 10

AnswerTopK == 5

QuerySteps ==
    <<"auth", "rateLimit", "validation", "ensureIndex", "embed", "query",
      "namespaceNotFound", "chat">>

QueryStepNo(step) ==
    IF step = "none" THEN Len(QuerySteps) + 1
    ELSE CHOOSE i \in 1..Len(QuerySteps) : QuerySteps[i] = step

QueryReaches(fail, step) == QueryStepNo(fail) >= QueryStepNo(step)

QueryPasses(fail, step) == QueryStepNo(fail) > QueryStepNo(step)

\* match.metadata?.content is truthy: present and not the empty string.
HasContent(match) ==
    "content" \in DOMAIN match.metadata /\ match.metadata["content"] # <<>>

\* Array.prototype.sort((a, b) => b.score - a.score): stable, by descending
\* score; an insertion of each element behind the elements not smaller.
RECURSIVE SortByScoreDesc(_)
SortByScoreDesc(seq) ==
    IF Len(seq) <= 1 THEN seq
    ELSE LET sorted == SortByScoreDesc(SubSeq(seq, 1, Len(seq) - 1))
             x == seq[Len(seq)]
             ahead == {i \in 1..Len(sorted) : sorted[i].score >= x.score}
             k == IF ahead = {} THEN 0 ELSE SetMax(ahead)
         IN SubSeq(sorted, 1, k) \o <<x>> \o SubSeq(sorted, k + 1, Len(sorted))

\* The content-bearing matches by score, all of them.
RelevantContentUncut(matches) ==
    LET withContent == SelectSeq(matches, HasContent)
    IN SortByScoreDesc([i \in 1..Len(withContent) |->
                           [content |-> withContent[i].metadata["content"],
                            score |-> withContent[i].score,
                            docId |-> withContent[i].metadata["docId"]]])

\* QA: matches.filter(content).map(...).sort(by score).slice(0, 10)
RelevantContent(matches) ==
    LET withContent == SelectSeq(matches, HasContent)
        mapped == [i \in 1..Len(withContent) |->
                      [content |-> withContent[i].metadata["content"],
                       score |-> withContent[i].score,
                       docId |-> withContent[i].metadata["docId"]]]
        sorted == SortByScoreDesc(mapped)
    IN SubSeq(sorted, 1, Min(QAContextLimit, Len(sorted)))

\* QA: the blocks joined into contextText, one per relevant chunk.
QAContext(matches) ==
    LET relevant == RelevantContent(matches)
    IN [i \in 1..Len(relevant) |-> <<relevant[i].docId, relevant[i].content>>]

\* QA: the sources of the response.
QASources(matches) ==
    LET relevant == RelevantContent(matches)
    IN [i \in 1..Len(relevant) |->
           [docId |-> relevant[i].docId, relevanceScore |-> relevant[i].score]]

\* QA: chunk.content.substring(0, 200) of a content that is not a string
\* throws a TypeError into the handler's catch block.
QASourcesThrow(matches) ==
    LET relevant == RelevantContent(matches)
    IN \E i \in 1..Len(relevant) : ~IsJsString(relevant[i].content)

TypeErrorMessage == [text |-> "substring is not a function", words |-> {}]

\* Answering search: the contents joined into the context.
AnswerContext(matches) ==
    LET contents == [i \in 1..Len(matches) |->
                        IF "content" \in DOMAIN matches[i].metadata
                        THEN matches[i].metadata["content"] ELSE <<>>]
        NonEmpty(c) == IsJsString(c) /\ Len(c) > 0
    IN SelectSeq(contents, NonEmpty)

\* A handler without the guard: the empty match list goes on to the chat
\* model like any other.
AnswersWithoutGuard(fail, matches) ==
    QueryPasses(fail, "namespaceNotFound") /\ Len(matches) < 0

\* The handler answers from the guard for an empty match list.
AnswersFromGuard(fail, matches) ==
    QueryPasses(fail, "namespaceNotFound") /\ Len(matches) = 0

\* The chat-completion calls of a QA request, each with its context.
QAChatCalls(fail, matches) ==
    IF QueryReaches(fail, "chat") /\ ~AnswersFromGuard(fail, matches)
    THEN <<[op |-> "chat", arg |-> QAContext(matches)]>>
    ELSE <<>>

AnswerChatCalls(fail, matches) ==
    IF QueryReaches(fail, "chat") /\ ~AnswersFromGuard(fail, matches)
    THEN <<[op |-> "chat", arg |-> AnswerContext(matches)]>>
    ELSE <<>>

\* A handler that makes sure of the index before it validates the input.
RetrievalCallsBeforeValidation(fail) ==
    LET Call(step) == IF QueryReaches(fail, step) THEN <<[op |-> step, arg |-> <<>>]>> ELSE <<>>
    IN (IF QueryReaches(fail, "validation")
        THEN <<[op |-> "ensureIndex", arg |-> <<>>]>> ELSE <<>>)
       \o Call("embed") \o Call("query")

\* The external calls of a query request before the chat call.
RetrievalCalls(fail) ==
    LET Call(step) == IF QueryReaches(fail, step) THEN <<[op |-> step, arg |-> <<>>]>> ELSE <<>>
    IN Call("ensureIndex") \o Call("embed") \o Call("query")

\* What the catch block reads of a thrown error: its message, here the
\* text when the handler's own code wrote it, and for an error of an
\* external service which of the two tested substrings the message holds.
MessageWords == {"namespace", "not found"}

NoMessage == [text |-> "none", words |-> {}]

ExternalMessages == {[text |-> "external", words |-> w] : w \in SUBSET MessageWords}

NamespaceNotFoundMessage == [text |-> "external", words |-> MessageWords]

\* A handler that lets the provider's error through as it came.
EmbedErrorRethrown(handler) == [text |-> "external", words |-> {}]

\* throw new Error("Failed to process question") in the QA handler, "Failed
\* to process search query" in the two search handlers.
EmbedFailedMessage(handler) ==
    [text |-> IF handler = "qa" THEN "Failed to process question"
              ELSE "Failed to process search query",
     words |-> {}]

\* throw new Error(`Index ${indexName} failed to become ready within timeout`)
IndexNotReadyMessage ==
    [text |-> "Index failed to become ready within timeout", words |-> {}]

\* The messages the error of a failing step may carry.  The generic failure
\* of the vector query is the one that is not the namespace error.
ThrownMessages(handler, fail) ==
    IF fail = "embed" THEN {EmbedFailedMessage(handler)}
    ELSE IF fail = "ensureIndex" THEN ExternalMessages \cup {IndexNotReadyMessage}
    ELSE IF fail = "namespaceNotFound" THEN {NamespaceNotFoundMessage}
    ELSE IF fail = "query" THEN ExternalMessages \ {NamespaceNotFoundMessage}
    ELSE IF fail = "mongoFind" THEN ExternalMessages
    ELSE IF fail = "chat" /\ handler = "answer" THEN ExternalMessages
    ELSE {NoMessage}

\* The catch block: 404 when error.message includes "namespace" and
\* includes "not found", 500 for every other error.
CatchStatus(fail, message) ==
    IF MessageWords \subseteq message.words THEN 404 ELSE 500

QueryErrorStatus(fail, message) ==
    IF fail = "auth" THEN 401
    ELSE IF fail = "rateLimit" THEN 429
    ELSE IF fail = "validation" THEN 400
    ELSE CatchStatus(fail, message)

\* The error field of an error response.
QueryErrorText(handler, fail, message) ==
    IF fail = "auth" THEN "Unauthorized"
    ELSE IF fail = "rateLimit" THEN "Rate limit exceeded"
    ELSE IF fail = "validation" THEN "validationError.message"
    ELSE IF CatchStatus(fail, message) = 404
    THEN IF handler = "qa" THEN "Collection not found" ELSE "Case not found"
    ELSE message.text

QAResponse(fail, matches, message) ==
    IF AnswersFromGuard(fail, matches)
    THEN [status |-> 200, answer |-> "no relevant information", sources |-> <<>>]
    ELSE IF fail \in {"none", "chat"} /\ QASourcesThrow(matches)
    THEN [status |-> CatchStatus(fail, TypeErrorMessage),
          error |-> TypeErrorMessage.text]
    ELSE IF fail = "none"
    THEN [status |-> 200, answer |-> "generated", sources |-> QASources(matches)]
    ELSE IF fail = "chat"
    THEN [status |-> 200, answer |-> "error while generating",
          sources |-> QASources(matches)]
    ELSE [status |-> QueryErrorStatus(fail, message),
          error |-> QueryErrorText("qa", fail, message)]

AnswerResponse(fail, matches, message) ==
    IF AnswersFromGuard(fail, matches)
    THEN [status |-> 200, answer |-> "documents do not contain this",
          retrieved_chunks |-> 0]
    ELSE IF fail = "none"
    THEN [status |-> 200, answer |-> "generated", retrieved_chunks |-> Len(matches)]
    ELSE [status |-> QueryErrorStatus(fail, message),
          error |-> QueryErrorText("answer", fail, message)]

(***************************************************************************)
(* The document search handler: the same retrieval as the QA handler, then *)
(* the matches grouped by document and the documents looked up in the      *)
(* metadata store under the caller's ownership.                            *)
(***************************************************************************)
SearchTopK == 20

SearchDocLimit == 10

\* The steps of the document search handler, in the order of the code.
SearchSteps ==
    <<"auth", "rateLimit", "validation", "ensureIndex", "embed", "query",
      "namespaceNotFound", "mongoFind">>

SearchStepNo(step) ==
    IF step = "none" THEN Len(SearchSteps) + 1
    ELSE CHOOSE i \in 1..Len(SearchSteps) : SearchSteps[i] = step

SearchReaches(fail, step) == SearchStepNo(fail) >= SearchStepNo(step)

SearchPasses(fail, step) == SearchStepNo(fail) > SearchStepNo(step)

\* match.metadata?.docId, and whether it is there (if (!docId) continue);
\* the document ids of the model are all truthy.
MatchDocId(match) == match.metadata["docId"]

HasDocId(match) == "docId" \in DOMAIN match.metadata

\* docScores: one entry per document id, in the order of first appearance
\* (the insertion order of the Map), with the summed score and the chunks.
RECURSIVE GroupByDocument(_, _)
GroupByDocument(matches, groups) ==
    IF matches = <<>> THEN groups
    ELSE LET match == Head(matches)
             docId == MatchDocId(match)
             at == {i \in 1..Len(groups) : groups[i].docId = docId}
         IN IF ~HasDocId(match) THEN GroupByDocument(Tail(matches), groups)
            ELSE IF at = {}
            THEN GroupByDocument(Tail(matches),
                     Append(groups, [docId |-> docId, score |-> match.score,
                                     chunks |-> <<match>>, count |-> 1]))
            ELSE LET i == CHOOSE j \in at : TRUE
                 IN GroupByDocument(Tail(matches),
                        [groups EXCEPT ![i].score = @ + match.score,
                                       ![i].chunks = Append(@, match),
                                       ![i].count = @ + 1])

\* A comparison of the summed scores, not of the averages.
RelevanceBySum(a, b) == a.score >= b.score

\* a.relevanceScore >= b.relevanceScore for the averages score / chunks.length
RelevanceAtLeast(a, b) == a.score * Len(b.chunks) >= b.score * Len(a.chunks)

\* sort((a, b) => b.relevanceScore - a.relevanceScore): stable, descending.
RECURSIVE SortByRelevanceDesc(_)
SortByRelevanceDesc(seq) ==
    IF Len(seq) <= 1 THEN seq
    ELSE LET sorted == SortByRelevanceDesc(SubSeq(seq, 1, Len(seq) - 1))
             x == seq[Len(seq)]
             ahead == {i \in 1..Len(sorted) : RelevanceAtLeast(sorted[i], x)}
             k == IF ahead = {} THEN 0 ELSE SetMax(ahead)
         IN SubSeq(sorted, 1, k) \o <<x>> \o SubSeq(sorted, k + 1, Len(sorted))

\* A mapping that takes the document's last chunk instead.
LastChunk(data) == data.chunks[Len(data.chunks)]

\* bestChunk: data.chunks[0], the document's first chunk in match order.
BestChunk(data) == data.chunks[1]

PreviewLimit == 300

Ellipsis == <<".", ".", ".">>

\* What string concatenation makes of undefined.
UndefinedText == <<"u", "n", "d", "e", "f", "i", "n", "e", "d">>

\* content.substring(0, PreviewLimit)
Truncated(content) == SubSeq(content, 1, Min(PreviewLimit, Len(content)))

\* bestChunk.metadata?.content?.substring(0, 300) + "..." || "": the optional
\* chain gives undefined for a missing content, the concatenation turns it
\* into text, and the result is never empty, so "" is never taken.
PreviewText(bestChunk) ==
    LET content == Field(bestChunk.metadata, "content")
    IN IF content = Undefined THEN UndefinedText \o Ellipsis
       ELSE Truncated(content) \o Ellipsis

\* sortedDocs: the groups by descending average score, the first ten.
SortedDocs(matches) ==
    LET sorted == SortByRelevanceDesc(GroupByDocument(matches, <<>>))
    IN SubSeq(sorted, 1, Min(SearchDocLimit, Len(sorted)))

\* A lookup by document id alone, without the owner.
FindDocumentsOfAnyone(store, docIds, userId) ==
    {d \in store : d.docId \in docIds}

\* documents.find({ docId: { $in: docIds }, uploadedBy: user.userId })
FindOwnedDocuments(store, docIds, userId) ==
    {d \in store : d.docId \in docIds /\ d.uploadedBy = userId}

\* results: one entry per sorted document the lookup returned, in order.
SearchResults(store, matches, userId) ==
    LET sortedDocs == SortedDocs(matches)
        found == FindOwnedDocuments(store,
                     {sortedDocs[i].docId : i \in 1..Len(sortedDocs)}, userId)
        Known(docData) == \E d \in found : d.docId = docData.docId
        kept == SelectSeq(sortedDocs, Known)
    IN [i \in 1..Len(kept) |->
           [docId |-> kept[i].docId,
            totalChunks |-> (CHOOSE d \in found : d.docId = kept[i].docId).totalChunks,
            metadata |-> (CHOOSE d \in found : d.docId = kept[i].docId).metadata,
            relevanceScore |-> <<kept[i].score, Len(kept[i].chunks)>>,
            chunkCount |-> kept[i].count,
            previewText |-> PreviewText(BestChunk(kept[i]))]]

\* bestChunk.metadata?.content?.substring(0, 300) of a content that is not
\* a string throws a TypeError, for a document the lookup returned.
SearchResultsThrow(store, matches, userId) ==
    LET sortedDocs == SortedDocs(matches)
        found == FindOwnedDocuments(store,
                     {sortedDocs[i].docId : i \in 1..Len(sortedDocs)}, userId)
    IN \E i \in 1..Len(sortedDocs) :
          /\ \E d \in found : d.docId = sortedDocs[i].docId
          /\ Field(BestChunk(sortedDocs[i]).metadata, "content") = NumberValue

\* The document search handler answers an empty match list with no lookup.
SearchAnswersFromGuard(fail, matches) ==
    SearchPasses(fail, "namespaceNotFound") /\ Len(matches) = 0

\* The external calls of a document search request.
SearchCalls(fail, matches) ==
    RetrievalCalls(IF fail = "mongoFind" THEN "none" ELSE fail)
    \o (IF SearchReaches(fail, "mongoFind") /\ ~SearchAnswersFromGuard(fail, matches)
        THEN <<[op |-> "mongoFind", arg |-> <<>>]>> ELSE <<>>)

SearchResponse(store, fail, matches, userId, message) ==
    IF SearchAnswersFromGuard(fail, matches)
    THEN [status |-> 200, documents |-> <<>>, totalResults |-> 0]
    ELSE IF fail = "none" /\ SearchResultsThrow(store, matches, userId)
    THEN [status |-> CatchStatus(fail, TypeErrorMessage),
          error |-> TypeErrorMessage.text]
    ELSE IF fail = "none"
    THEN [status |-> 200, documents |-> SearchResults(store, matches, userId),
          totalResults |-> Len(SearchResults(store, matches, userId))]
    ELSE [status |-> QueryErrorStatus(fail, message),
          error |-> QueryErrorText("search", fail, message)]

(***************************************************************************)
(* The chunker on its own: one call of chunkText on a text drawn from      *)
(* every string of at most MaxTextLen characters over a letter, a sentence *)
(* terminator, a blank and a line feed, and from longer texts of letters   *)
(* holding one two-character marker.                                       *)
(***************************************************************************)
Alphabet == {"a", ".", " ", "NL"}

ShortTexts == StringsUpTo(Alphabet, MaxTextLen)

LongLens == {60, 130}

Markers == {<<".", " ">>, <<"NL", "NL">>, <<" ", " ">>}

LongText(len, p, marker) ==
    [i \in 1..len |-> IF i = p + 1 THEN marker[1]
                      ELSE IF i = p + 2 THEN marker[2] ELSE "a"]

LongTexts == {LongText(len, p, m) : len \in LongLens, p \in {5, 25, 58}, m \in Markers}

ChunkSizes == (1..MaxChunkSize) \cup {10, 60}

Overlaps == 0..MaxOverlap

Off == [phase |-> "off"]

ChunkerInit ==
    \E t \in ShortTexts \cup LongTexts, cs \in ChunkSizes, ov \in Overlaps :
        chunker = [phase |-> "ready", text |-> t, chunkSize |-> cs,
                   overlap |-> ov, start |-> 0, chunks |-> <<>>]

\* chunkText is entered: the early return, or the loop's initial state.
ChunkTextEnter ==
    /\ chunker.phase = "ready"
    /\ chunker' = [chunker EXCEPT
                     !.phase = IF ChunkTextReturnsEarly(chunker.text)
                               THEN "done" ELSE "loop"]
    /\ UNCHANGED <<embedder, normalizer, documents, chunkRecords,
                   vectorStore, blobs, request,
                   limiter, tokens, labelRequests, ocr,
                   extraction, indexer,
                   ranking>>

\* One iteration of the loop; the function returns when the loop ends.
ChunkTextIterate ==
    /\ chunker.phase = "loop"
    /\ LET it == ChunkIteration(chunker.text, [source |-> "file"], "doc",
                                chunker.chunkSize, chunker.overlap,
                                chunker.start, chunker.chunks)
       IN chunker' = [chunker EXCEPT
                        !.phase = IF it.ended THEN "done" ELSE "loop",
                        !.start = it.start,
                        !.chunks = it.chunks]
    /\ UNCHANGED <<embedder, normalizer, documents, chunkRecords,
                   vectorStore, blobs, request,
                   limiter, tokens, labelRequests, ocr,
                   extraction, indexer,
                   ranking>>

InitChunker ==
    /\ ChunkerInit
    /\ embedder = Off /\ normalizer = Off
    /\ documents = {} /\ chunkRecords = {} /\ vectorStore = {} /\ blobs = {}
    /\ request = Off
    /\ ranking = Off
    /\ extraction = Off /\ indexer = Off
    /\ limiter = Off /\ tokens = Off /\ labelRequests = Off /\ ocr = Off

NextChunker == ChunkTextEnter \/ ChunkTextIterate

SpecChunker == InitChunker /\ [][NextChunker]_vars

\* The end of the text a chunk's slice(start, end) actually read.
WindowEnd(text, c) ==
    IF c.end < 0 THEN Max(Len(text) + c.end, 0) ELSE Min(c.end, Len(text))

ChunkerDone == chunker.phase = "done"

CountSlack == 2

\* The characters two consecutive chunks' windows share.
WindowOverlap(text, c, d) ==
    Max(Min(WindowEnd(text, c), WindowEnd(text, d)) - d.start_char, 0)

CeilDiv(a, b) == (a + b - 1) \div b

\* C6: for any non-empty text, chunkSize >= 1 and overlap >= 0, the chunks
\* chunkText returns have chunk_id 0, 1, 2, ..., strictly increasing
\* start_char, non-empty content, and consecutive windows that share at most
\* `overlap' characters.
C6_ChunkStructure ==
    (ChunkerDone /\ Len(chunker.text) > 0) =>
        LET cs == chunker.chunks
        IN /\ \A i \in 1..Len(cs) : cs[i].chunk_id = i - 1
           /\ \A i \in 1..Len(cs) : Len(cs[i].content) > 0
           /\ \A i \in 1..(Len(cs) - 1) :
                 /\ cs[i].start_char < cs[i + 1].start_char
                 /\ WindowOverlap(chunker.text, cs[i], cs[i + 1]) <= chunker.overlap

\* C7: for any non-empty text and chunkSize > overlap >= 0, every character
\* of the text that is not white space lies in the window of a returned chunk.
C7_ChunksCoverText ==
    (ChunkerDone /\ Len(chunker.text) > 0 /\ chunker.chunkSize > chunker.overlap) =>
        \A p \in 0..(Len(chunker.text) - 1) :
            ~IsSpace(chunker.text[p + 1]) =>
                \E i \in 1..Len(chunker.chunks) :
                    /\ chunker.chunks[i].start_char <= p
                    /\ p < WindowEnd(chunker.text, chunker.chunks[i])

\* C8: a non-blank text shorter than chunkSize (chunkSize > overlap >= 0)
\* yields exactly one chunk, at start_char 0, holding the trimmed text.
C8_ShortTextOneChunk ==
    (/\ ChunkerDone
     /\ Len(JsTrim(chunker.text)) > 0
     /\ Len(chunker.text) < chunker.chunkSize
     /\ chunker.chunkSize > chunker.overlap) =>
        /\ Len(chunker.chunks) = 1
        /\ chunker.chunks[1].start_char = 0
        /\ chunker.chunks[1].content = JsTrim(chunker.text)

\* C9: the chunk whose window ends at the end of the text is the last chunk
\* returned, and the number of chunks is at most
\* ceil(len(text) / (chunkSize - overlap)) plus a small constant.
C9_StopsAtEndOfText ==
    (ChunkerDone /\ chunker.chunkSize > chunker.overlap) =>
        /\ \A i \in 1..Len(chunker.chunks) :
              WindowEnd(chunker.text, chunker.chunks[i]) = Len(chunker.text)
                  => i = Len(chunker.chunks)
        /\ Len(chunker.chunks) <=
              CeilDiv(Len(chunker.text), chunker.chunkSize - chunker.overlap)
                  + CountSlack

(***************************************************************************)
(* The embedding generator on its own: one call on up to MaxChunks chunks  *)
(* with every batch size up to MaxBatchSize and every pattern of provider  *)
(* failures.                                                               *)
(***************************************************************************)
RECURSIVE BoolSeqs(_)
BoolSeqs(n) ==
    IF n = 0 THEN {<<>>}
    ELSE {Append(s, b) : s \in BoolSeqs(n - 1), b \in BOOLEAN}

ChunkOf(i) == [content |-> <<"text", i>>, chunk_id |-> i - 1]

EmbedderInit ==
    \E n \in 0..MaxChunks, bs \in 1..MaxBatchSize :
        \E f1 \in BoolSeqs(n), f2 \in BoolSeqs(n) :
            embedder = [phase |-> "ready",
                        chunks |-> [i \in 1..n |-> ChunkOf(i)],
                        batchSize |-> bs, failFirst |-> f1, failRetry |-> f2,
                        embeddings |-> <<>>]

GenerateEmbeddingsBatchCall ==
    /\ embedder.phase = "ready"
    /\ embedder' = [embedder EXCEPT
                      !.phase = "done",
                      !.embeddings = generateEmbeddingsBatch(
                          embedder.chunks, embedder.batchSize,
                          embedder.failFirst, embedder.failRetry)]
    /\ UNCHANGED <<chunker, normalizer, documents, chunkRecords,
                   vectorStore, blobs, request,
                   limiter, tokens, labelRequests, ocr,
                   extraction, indexer,
                   ranking>>

InitEmbedder ==
    /\ EmbedderInit
    /\ chunker = Off /\ normalizer = Off
    /\ documents = {} /\ chunkRecords = {} /\ vectorStore = {} /\ blobs = {}
    /\ request = Off
    /\ ranking = Off
    /\ extraction = Off /\ indexer = Off
    /\ limiter = Off /\ tokens = Off /\ labelRequests = Off /\ ocr = Off

NextEmbedder == GenerateEmbeddingsBatchCall

SpecEmbedder == InitEmbedder /\ [][NextEmbedder]_vars

\* The batch of chunk i failed: a call for some chunk of it rejected.
BatchOfFailed(i) ==
    \E j \in 1..Len(embedder.chunks) :
        /\ (j - 1) \div embedder.batchSize = (i - 1) \div embedder.batchSize
        /\ embedder.failFirst[j]

\* The provider fails for chunk k always and for no other chunk.
ForcedFailureAt(k) ==
    \A j \in 1..Len(embedder.chunks) :
        /\ embedder.failFirst[j] <=> (j = k)
        /\ embedder.failRetry[j] <=> (j = k)

\* C5: generateEmbeddingsBatch returns one vector per chunk in input order:
\* position i holds the provider's embedding of chunk i, or the 768-long zero
\* vector exactly when the individual fallback call for chunk i failed; a
\* failure forced for one chunk puts the zero vector at that position only.
C5_EmbeddingsOrdered ==
    embedder.phase = "done" =>
        /\ Len(embedder.embeddings) = Len(embedder.chunks)
        /\ \A i \in 1..Len(embedder.chunks) :
              /\ embedder.embeddings[i].length = 768
              /\ embedder.embeddings[i] =
                    IF BatchOfFailed(i) /\ embedder.failRetry[i]
                    THEN [length |-> 768, values |-> <<"zeros">>]
                    ELSE ProviderEmbedding(embedder.chunks[i].content)
        /\ \A k \in 1..Len(embedder.chunks) :
              ForcedFailureAt(k) =>
                  \A i \in 1..Len(embedder.chunks) :
                      (embedder.embeddings[i].values = <<"zeros">>) <=> (i = k)

\* A call of three or more chunks in batches of two where the provider fails
\* for the second chunk only: the result holds the zero vector there and the
\* embeddings of the first and third chunk around it.
C5_Witness ==
    /\ embedder.phase = "done"
    /\ Len(embedder.chunks) >= 3
    /\ embedder.batchSize = 2
    /\ ForcedFailureAt(2)
    /\ embedder.embeddings[2] = ZeroVector
    /\ embedder.embeddings[1] = ProviderEmbedding(embedder.chunks[1].content)
    /\ embedder.embeddings[3] = ProviderEmbedding(embedder.chunks[3].content)

(***************************************************************************)
(* The namespace derivation on its own: the three handlers derive the      *)
(* namespace of one raw case name, and then of their own results.          *)
(***************************************************************************)
NameAlphabet == {"a", "B", "7", "_", "-", " ", "."}

RawNames == StringsUpTo(NameAlphabet, MaxNameLen)

NormalizerInit ==
    \E x \in RawNames :
        normalizer = [phase |-> "ready", raw |-> x,
                      upload |-> <<>>, qa |-> <<>>, search |-> <<>>,
                      uploadAgain |-> <<>>, qaAgain |-> <<>>, searchAgain |-> <<>>]

\* The upload carries the name as metadata.caseName, the queries as their
\* collectionName / caseName field.
DeriveNamespaces ==
    /\ normalizer.phase = "ready"
    /\ normalizer' = [normalizer EXCEPT
                        !.phase = "derived",
                        !.upload = UploadNamespace([caseName |-> normalizer.raw]),
                        !.qa = QANamespace(normalizer.raw),
                        !.search = SearchNamespace(normalizer.raw)]
    /\ UNCHANGED <<chunker, embedder, documents, chunkRecords,
                   vectorStore, blobs, request,
                   limiter, tokens, labelRequests, ocr,
                   extraction, indexer,
                   ranking>>

DeriveNamespacesAgain ==
    /\ normalizer.phase = "derived"
    /\ normalizer' = [normalizer EXCEPT
                        !.phase = "again",
                        !.uploadAgain = UploadNamespace([caseName |-> normalizer.upload]),
                        !.qaAgain = QANamespace(normalizer.qa),
                        !.searchAgain = SearchNamespace(normalizer.search)]
    /\ UNCHANGED <<chunker, embedder, documents, chunkRecords,
                   vectorStore, blobs, request,
                   limiter, tokens, labelRequests, ocr,
                   extraction, indexer,
                   ranking>>

InitNormalizer ==
    /\ NormalizerInit
    /\ chunker = Off /\ embedder = Off
    /\ documents = {} /\ chunkRecords = {} /\ vectorStore = {} /\ blobs = {}
    /\ request = Off
    /\ ranking = Off
    /\ extraction = Off /\ indexer = Off
    /\ limiter = Off /\ tokens = Off /\ labelRequests = Off /\ ocr = Off

NextNormalizer == DeriveNamespaces \/ DeriveNamespacesAgain

SpecNormalizer == InitNormalizer /\ [][NextNormalizer]_vars

OnlySafeCharacters(s) ==
    \A i \in 1..Len(s) :
        s[i] \in LowerLetters \cup Digits \cup {"_", "-"}

\* C10: the namespace derivation is idempotent, its result holds only
\* characters of [a-z0-9_-], and the upload, search and QA handlers derive the
\* same namespace from the same case name.
C10_NamespaceDerivation ==
    /\ normalizer.phase \in {"derived", "again"} =>
          /\ OnlySafeCharacters(normalizer.qa)
          /\ OnlySafeCharacters(normalizer.search)
          /\ OnlySafeCharacters(normalizer.upload)
          /\ normalizer.qa = normalizer.search
          /\ normalizer.raw # <<>> => normalizer.upload = normalizer.qa
    /\ normalizer.phase = "again" =>
          /\ normalizer.qaAgain = normalizer.qa
          /\ normalizer.searchAgain = normalizer.search
          /\ normalizer.upload # <<>> => normalizer.uploadAgain = normalizer.upload

\* A name with an upper-case letter and a run of two unsafe characters has
\* been derived, to a namespace that differs from it, and derived again.
C10_Witness ==
    /\ normalizer.phase = "again"
    /\ normalizer.raw = <<".", " ", "B">>
    /\ normalizer.qa = <<"-", "b">>
    /\ normalizer.qaAgain = <<"-", "b">>

(***************************************************************************)
(* The handlers over the shared stores: up to MaxRequests requests, each   *)
(* an upload, a QA request or an answering search request, served one      *)
(* after the other.                                                        *)
(***************************************************************************)
Users == {"u1", "u2"}

\* The metadata objects of the uploads: a case name (two of them derive the
\* same namespace), and in two objects a `content' key of the caller's own,
\* an empty string and a number.
UserMetadatas ==
    {[title |-> <<"t">>],
     [caseName |-> <<"a">>],
     [caseName |-> <<"A">>],
     [caseName |-> <<"b">>, content |-> <<>>],
     [caseName |-> <<"b">>, content |-> NumberValue]}

CaseNames == {<<"a">>, <<"A">>, <<"b">>, DefaultCase}

\* How many chunks chunkText makes of the uploaded text; above
\* UpsertBatchSize the upsert takes two batches.
ChunkCounts == {0, 1, 2, UpsertBatchSize + 1}

UploadFails ==
    {"none", "auth", "rateLimit", "validation", "blobUpload", "extractText",
     "writeTempFile", "ocr", "blankText", "noChunks", "getDatabase",
     "ensureIndex", "insertDocument", "insertChunks", "upsert"}

QueryFails ==
    {"none", "auth", "rateLimit", "validation", "ensureIndex", "embed",
     "query", "namespaceNotFound", "chat"}

Scores == {1, 2}

Idle ==
    [phase |-> "idle", seq |-> 0, handler |-> "none", user |-> "none",
     fail |-> "none", docId |-> 0, namespace |-> <<>>, matches |-> <<>>,
     calls |-> <<>>, message |-> NoMessage, response |-> [status |-> 0]]

HandlersInit ==
    /\ documents = {} /\ chunkRecords = {} /\ vectorStore = {} /\ blobs = {}
    /\ request = Idle

UploadPost ==
    /\ request.seq < MaxRequests
    /\ \E user \in Users, metadata \in UserMetadatas, needsOcr \in BOOLEAN,
          n \in ChunkCounts, fail \in UploadFails, failBatch \in 0..1 :
        LET docId == request.seq + 1
            namespace == UploadNamespace(metadata)
            chunkMetadata == ChunkMetadata(metadata, docId)
        IN \* the inputs fit together
           /\ needsOcr => Reaches(fail, "writeTempFile")
           /\ fail \in {"writeTempFile", "ocr", "blankText"} => needsOcr
           /\ (n > 0) <=> Passes(fail, "noChunks")
           /\ IF fail = "upsert" THEN failBatch < UpsertBatches(n) ELSE failBatch = 0
           \* the effects, in the order of the code
           /\ blobs' = IF Passes(fail, "blobUpload") THEN blobs \cup {docId} ELSE blobs
           /\ documents' =
                 IF Passes(fail, "insertDocument")
                 THEN documents \cup {[docId |-> docId, uploadedBy |-> user,
                                       totalChunks |-> n, metadata |-> metadata,
                                       pineconeNamespace |-> namespace]}
                 ELSE documents
           /\ chunkRecords' =
                 IF Passes(fail, "insertChunks")
                 THEN chunkRecords \cup {[docId |-> docId, chunks |-> n,
                                          uploaded_by |-> user]}
                 ELSE chunkRecords
           /\ vectorStore' =
                 vectorStore \cup
                     {UpsertBatch(namespace, docId, user, chunkMetadata, k, n) :
                          k \in UpsertedBatches(fail, failBatch, n)}
           /\ request' =
                 [phase |-> "served", seq |-> request.seq + 1, handler |-> "upload",
                  user |-> user, fail |-> fail, docId |-> docId,
                  namespace |-> namespace, matches |-> <<>>,
                  calls |-> UploadCalls(fail, failBatch, needsOcr, n),
                  message |-> NoMessage,
                  response |-> [status |-> UploadStatus(fail),
                                body |-> UploadBody(fail, docId, n)]]
           /\ UNCHANGED <<chunker, embedder, normalizer,
                   limiter, tokens, labelRequests, ocr,
                   extraction, indexer,
                   ranking>>

\* A vector index that is not partitioned: every record, whatever its
\* namespace.
RecordsOfAnyNamespace(namespace) ==
    UNION {{[batch |-> b, chunk |-> i] : i \in b.first..b.last} : b \in vectorStore}

\* The vector records of a namespace.
RecordsOf(namespace) ==
    UNION {{[batch |-> b, chunk |-> i] : i \in b.first..b.last} :
              b \in {x \in vectorStore : x.namespace = namespace}}

MatchOf(record, score) ==
    [id |-> <<record.batch.docId, record.chunk>>,
     score |-> score,
     metadata |-> VectorMetadata(record.batch.chunkMetadata, record.batch.docId,
                                 record.batch.uploadedBy, record.chunk)]

\* What query({ topK, includeMetadata }) may return for a namespace: its
\* min(topK, size) nearest records, in any order of nearness, by descending
\* score.
QueryResults(namespace, topK) ==
    LET records == RecordsOf(namespace)
        n == Min(topK, Cardinality(records))
        orders == {p \in [1..n -> records] : \A i, j \in 1..n : i # j => p[i] # p[j]}
        scores == {f \in [1..n -> Scores] : \A i \in 1..(n - 1) : f[i] >= f[i + 1]}
    IN {[i \in 1..n |-> MatchOf(p[i], f[i])] : p \in orders, f \in scores}

\* The match lists a query request may get: what the query returned, and
\* the empty list when the query was not reached or threw.
MatchLists(namespace, fail, topK) ==
    IF QueryPasses(fail, "namespaceNotFound")
    THEN IF Cardinality(RecordsOf(namespace)) <= MaxQueryRecords
         THEN QueryResults(namespace, topK) ELSE {}
    ELSE {<<>>}

\* A handler that keeps the matches the requesting user uploaded.
QAOwnedMatches(matches, userId) ==
    LET Own(m) == m.metadata["uploadedBy"] = userId
    IN SelectSeq(matches, Own)

\* const matches = queryResponse.matches || []: the QA handler builds the
\* context and the sources on every match of the namespace, with no test
\* of metadata.uploadedBy against user.userId.
QAUsedMatches(matches, userId) == matches

QAPost ==
    /\ request.seq < MaxRequests
    /\ \E user \in Users, raw \in CaseNames, fail \in QueryFails :
          \E matches \in MatchLists(QANamespace(raw), fail, QATopK),
             message \in ThrownMessages("qa", fail) :
              request' =
                  [phase |-> "served", seq |-> request.seq + 1, handler |-> "qa",
                   user |-> user, fail |-> fail, docId |-> 0,
                   namespace |-> QANamespace(raw), matches |-> matches,
                   calls |-> RetrievalCalls(fail)
                             \o QAChatCalls(fail, QAUsedMatches(matches, user)),
                   message |-> message,
                   response |-> QAResponse(fail, QAUsedMatches(matches, user),
                                           message)]
    /\ UNCHANGED <<chunker, embedder, normalizer, documents,
                   chunkRecords, vectorStore, blobs,
                   limiter, tokens, labelRequests, ocr,
                   extraction, indexer,
                   ranking>>

AnswerSearchPost ==
    /\ request.seq < MaxRequests
    /\ \E user \in Users, raw \in CaseNames, fail \in QueryFails :
          \E matches \in MatchLists(SearchNamespace(raw), fail, AnswerTopK),
             message \in ThrownMessages("answer", fail) :
              request' =
                  [phase |-> "served", seq |-> request.seq + 1, handler |-> "answer",
                   user |-> user, fail |-> fail, docId |-> 0,
                   namespace |-> SearchNamespace(raw), matches |-> matches,
                   calls |-> RetrievalCalls(fail) \o AnswerChatCalls(fail, matches),
                   message |-> message,
                   response |-> AnswerResponse(fail, matches, message)]
    /\ UNCHANGED <<chunker, embedder, normalizer, documents,
                   chunkRecords, vectorStore, blobs,
                   limiter, tokens, labelRequests, ocr,
                   extraction, indexer,
                   ranking>>

SearchFails == (QueryFails \ {"chat"}) \cup {"mongoFind"}

\* The match lists of a document search request.
SearchMatchLists(namespace, fail, topK) ==
    IF SearchPasses(fail, "namespaceNotFound")
    THEN IF Cardinality(RecordsOf(namespace)) <= MaxQueryRecords
         THEN QueryResults(namespace, topK) ELSE {}
    ELSE {<<>>}

DocSearchPost ==
    /\ request.seq < MaxRequests
    /\ \E user \in Users, raw \in CaseNames, fail \in SearchFails :
          \E matches \in SearchMatchLists(SearchNamespace(raw), fail, SearchTopK),
             message \in ThrownMessages("search", fail) :
              request' =
                  [phase |-> "served", seq |-> request.seq + 1, handler |-> "search",
                   user |-> user, fail |-> fail, docId |-> 0,
                   namespace |-> SearchNamespace(raw), matches |-> matches,
                   calls |-> SearchCalls(fail, matches),
                   message |-> message,
                   response |-> SearchResponse(documents, fail, matches, user, message)]
    /\ UNCHANGED <<chunker, embedder, normalizer, documents,
                   chunkRecords, vectorStore, blobs,
                   limiter, tokens, labelRequests, ocr,
                   extraction, indexer,
                   ranking>>

Init ==
    /\ HandlersInit
    /\ chunker = Off /\ embedder = Off /\ normalizer = Off
    /\ ranking = Off
    /\ extraction = Off /\ indexer = Off
    /\ limiter = Off /\ tokens = Off /\ labelRequests = Off /\ ocr = Off

Next == UploadPost \/ QAPost \/ AnswerSearchPost \/ DocSearchPost

Spec == Init /\ [][Next]_vars

UploadServed == request.phase = "served" /\ request.handler = "upload"

ErrorResponse == request.response.status >= 400

\* Every upsert batch of document d with n chunks is in the vector store.
FullyUpserted(d, n) ==
    \A k \in 0..(UpsertBatches(n) - 1) :
        \E b \in vectorStore : b.docId = d /\ b.first = k * UpsertBatchSize

\* C1: the Document and Chunk records of an upload are in the metadata store
\* only when every upsert batch of the document has succeeded, and after an
\* error response the store holds no Document record of the request's
\* document id.
C1_DocumentOnlyAfterUpsert ==
    /\ \A d \in documents : FullyUpserted(d.docId, d.totalChunks)
    /\ \A c \in chunkRecords : FullyUpserted(c.docId, c.chunks)
    /\ (UploadServed /\ ErrorResponse) =>
          \A d \in documents : d.docId # request.docId

\* C2: an upload that ends with an error response leaves no vector record
\* and no Chunk record of its document, and its response carries no
\* document id.
C2_FailedUploadLeavesNothing ==
    (UploadServed /\ ErrorResponse) =>
        /\ \A b \in vectorStore : b.docId # request.docId
        /\ \A c \in chunkRecords : c.docId # request.docId
        /\ "docId" \notin DOMAIN request.response.body

QueryServed == request.phase = "served" /\ request.handler \in {"qa", "answer"}

\* The vector query of the request returned (it did not throw, and nothing
\* before it failed).
QueryReturned == QueryServed /\ request.fail \in {"none", "chat"}

ChatCallsMade == {i \in 1..Len(request.calls) : request.calls[i].op = "chat"}

\* C3: when the vector query returns no match, the answering handlers
\* respond with their fixed answer (the QA handler with no source) and call
\* the chat-completion provider not once.
C3_NoMatchNoChat ==
    (QueryReturned /\ request.matches = <<>>) =>
        /\ ChatCallsMade = {}
        /\ request.response.status = 200
        /\ request.handler = "qa" =>
              /\ request.response.answer = "no relevant information"
              /\ request.response.sources = <<>>
        /\ request.handler = "answer" =>
              /\ request.response.answer = "documents do not contain this"
              /\ request.response.retrieved_chunks = 0

\* A QA request, made after an upload into another namespace, whose query
\* returned no match while the chat provider was down: the fixed answer.
C3_Witness ==
    /\ QueryReturned
    /\ request.handler = "qa"
    /\ request.fail = "chat"
    /\ request.matches = <<>>
    /\ vectorStore # {}
    /\ request.response.answer = "no relevant information"

\* C4: whenever the QA handler calls the chat-completion provider, the
\* context in the prompt holds the content of at least one retrieved chunk.
C4_ChatContextNotEmpty ==
    (QueryServed /\ request.handler = "qa") =>
        \A i \in ChatCallsMade : Len(request.calls[i].arg) > 0

\* The topK of the handler that served the request.
RequestTopK ==
    IF request.handler = "qa" THEN QATopK
    ELSE IF request.handler = "answer" THEN AnswerTopK
    ELSE SearchTopK

\* The request is a query whose vector query returned.
RetrievalReturned ==
    /\ request.phase = "served"
    /\ request.handler \in {"qa", "answer", "search"}
    /\ request.fail \in {"none", "chat", "mongoFind"}

\* The upload that made document d succeeded: all its vectors are stored.
UploadSucceeded(d) == FullyUpserted(d.docId, d.totalChunks)

\* The contents of the chunks of document d.
ChunkContents(d) == {<<"chunk", d.docId, i>> : i \in 0..(d.totalChunks - 1)}

\* Match m carries document d: its document id and the content of one of
\* the document's chunks.
CarriesDocument(m, d) ==
    /\ "docId" \in DOMAIN m.metadata /\ m.metadata["docId"] = d.docId
    /\ "content" \in DOMAIN m.metadata /\ m.metadata["content"] \in ChunkContents(d)

\* C11: after an upload under case name c has succeeded with document id d,
\* a QA or search request whose case name derives the same namespace, made
\* while the namespace holds fewer records than the request's topK, gets a
\* match with document id d and the content of one of d's chunks.
C11_RoundTrip ==
    RetrievalReturned =>
        \A d \in documents :
            (/\ UploadSucceeded(d)
             /\ UploadNamespace(d.metadata) = request.namespace
             /\ Cardinality(RecordsOf(request.namespace)) < RequestTopK) =>
                \E i \in 1..Len(request.matches) :
                    CarriesDocument(request.matches[i], d)

\* The upsert that wrote the vector record with id <<docId, chunk>>.
WrittenBy(id) ==
    {b \in vectorStore : b.docId = id[1] /\ id[2] \in b.first..b.last}

\* C12: every match a query handler obtains was written by an upload whose
\* derived namespace is the request's namespace; a record upserted under
\* another namespace is never returned.
C12_NoCrossNamespace ==
    RetrievalReturned =>
        \A i \in 1..Len(request.matches) :
            /\ WrittenBy(request.matches[i].id) # {}
            /\ \A b \in WrittenBy(request.matches[i].id) :
                  b.namespace = request.namespace
            /\ \E d \in documents :
                  /\ d.docId = request.matches[i].id[1]
                  /\ UploadNamespace(d.metadata) = request.namespace

\* A search request on one namespace, made when the index holds records of
\* another namespace only, whose query returned: it got none of them.
C12_Witness ==
    /\ RetrievalReturned
    /\ request.handler = "search"
    /\ request.fail = "none"
    /\ vectorStore # {}
    /\ \A b \in vectorStore : b.namespace # request.namespace
    /\ request.matches = <<>>

SearchAnswered ==
    /\ request.phase = "served"
    /\ request.handler = "search"
    /\ request.response.status = 200

\* The document ids in the documents list of the search response.
ReturnedDocIds ==
    {request.response.documents[i].docId :
         i \in 1..Len(request.response.documents)}

\* C13: every document in a search response was uploaded by the requesting
\* user; a document of another user is never in the list, also when the
\* query matched its chunks.
C13_OwnershipIsolation ==
    SearchAnswered =>
        /\ \A id \in ReturnedDocIds :
              \E d \in documents : d.docId = id /\ d.uploadedBy = request.user
        /\ \A d \in documents :
              d.uploadedBy # request.user => d.docId \notin ReturnedDocIds

\* A user searches the namespace another user uploaded into: the query
\* matched the other user's chunks, and the documents list is empty.
C13_Witness ==
    /\ SearchAnswered
    /\ request.matches # <<>>
    /\ \E d \in documents :
          /\ d.uploadedBy # request.user
          /\ \E i \in 1..Len(request.matches) :
                "docId" \in DOMAIN request.matches[i].metadata
                    /\ request.matches[i].metadata["docId"] = d.docId
    /\ request.response.documents = <<>>

\* The request was rejected for its credential, the rate limit or its input.
RejectedEarly ==
    /\ request.phase = "served"
    /\ request.handler \in {"upload", "qa", "answer", "search"}
    /\ request.response.status \in {400, 401, 429}

\* C15: a request the upload, search or QA handler rejects with 401, 429 or
\* 400 makes no call to an external collaborator and stores nothing.
C15_RejectedWithoutCalls ==
    RejectedEarly =>
        /\ request.calls = <<>>
        /\ request.handler = "upload" =>
              /\ request.docId \notin blobs
              /\ \A d \in documents : d.docId # request.docId
              /\ \A c \in chunkRecords : c.docId # request.docId
              /\ \A b \in vectorStore : b.docId # request.docId

\* A QA request with an input that fails validation, made when the index
\* holds records: answered 400 without a call.
C15_Witness ==
    /\ RejectedEarly
    /\ request.handler = "qa"
    /\ request.fail = "validation"
    /\ request.response.status = 400
    /\ vectorStore # {}
    /\ request.calls = <<>>

(***************************************************************************)
(* The rate limiter of one endpoint on its own: checkRateLimit over the    *)
(* endpoint's table, called by the users at the times of a clock that      *)
(* advances between the calls.                                             *)
(***************************************************************************)
WindowMs == 60000

UploadMaxRequests == 10

QAMaxRequests == 20

SearchMaxRequests == 30

MaxTicks == 3

\* rateLimitMap.get(userId) of a user without an entry.
NoEntry == [count |-> 0, resetTime |-> -1]

\* A limiter that compares with > where the code compares with >=.
checkRateLimitOffByOne(table, userId, now, maxRequests) ==
    LET userLimit == table[userId]
    IN IF userLimit = NoEntry \/ now > userLimit.resetTime
       THEN [allowed |-> TRUE,
             table |-> [table EXCEPT ![userId] =
                           [count |-> 1, resetTime |-> now + WindowMs]]]
       ELSE IF userLimit.count > maxRequests
       THEN [allowed |-> FALSE, table |-> table]
       ELSE [allowed |-> TRUE,
             table |-> [table EXCEPT ![userId].count = @ + 1]]

\* A limiter that counts the rejected calls too.
checkRateLimitCountingRejected(table, userId, now, maxRequests) ==
    LET userLimit == table[userId]
    IN IF userLimit = NoEntry \/ now > userLimit.resetTime
       THEN [allowed |-> TRUE,
             table |-> [table EXCEPT ![userId] =
                           [count |-> 1, resetTime |-> now + WindowMs]]]
       ELSE [allowed |-> userLimit.count < maxRequests,
             table |-> [table EXCEPT ![userId].count = @ + 1]]

\* checkRateLimit(userId) at time `now': the result and the table after it.
checkRateLimit(table, userId, now, maxRequests) ==
    LET userLimit == table[userId]
    IN IF userLimit = NoEntry \/ now > userLimit.resetTime
       THEN [allowed |-> TRUE,
             table |-> [table EXCEPT ![userId] =
                           [count |-> 1, resetTime |-> now + WindowMs]]]
       ELSE IF userLimit.count >= maxRequests
       THEN [allowed |-> FALSE, table |-> table]
       ELSE [allowed |-> TRUE,
             table |-> [table EXCEPT ![userId].count = @ + 1]]

\* The endpoints with a rate limiter and their maxRequests.
LimitOf(endpoint) ==
    IF endpoint = "upload" THEN UploadMaxRequests
    ELSE IF endpoint = "qa" THEN QAMaxRequests
    ELSE SearchMaxRequests

Endpoints == {"upload", "qa", "search"}

\* How far the clock moves between two calls.
Delays == {1, WindowMs}

\* A user that has made no request: no window is open.
NoWindow == [opened |-> -1, allowed |-> 0, rejected |-> FALSE]

LimiterInit ==
    \E e \in Endpoints :
        limiter = [endpoint |-> e, now |-> 0, ticks |-> 0,
                   table |-> [u \in Users |-> NoEntry],
                   window |-> [u \in Users |-> NoWindow],
                   last |-> [user |-> "none", status |-> 0, fresh |-> FALSE]]

\* The clock advances.
LimiterTick ==
    /\ limiter.ticks < MaxTicks
    /\ \E dt \in Delays :
          limiter' = [limiter EXCEPT !.now = @ + dt, !.ticks = @ + 1]
    /\ UNCHANGED <<chunker, embedder, normalizer, documents, chunkRecords,
                   vectorStore, blobs, request, tokens, labelRequests, ocr,
                   extraction, indexer,
                   ranking>>

\* A request of an authenticated user reaches the rate-limit check of the
\* handler.  `window' records, apart from the table, the time of the request
\* that opened the user's current window (the first request, or the first
\* one after the window before had elapsed) and what happened to the
\* requests made within WindowMs of it.
LimiterRequest ==
    /\ \E u \in Users :
          LET check == checkRateLimit(limiter.table, u, limiter.now,
                                      LimitOf(limiter.endpoint))
              w == limiter.window[u]
              fresh == w.opened = -1 \/ limiter.now > w.opened + WindowMs
              after == IF fresh
                       THEN [opened |-> limiter.now,
                             allowed |-> IF check.allowed THEN 1 ELSE 0,
                             rejected |-> ~check.allowed]
                       ELSE [opened |-> w.opened,
                             allowed |-> w.allowed + (IF check.allowed THEN 1 ELSE 0),
                             rejected |-> w.rejected \/ ~check.allowed]
          IN limiter' = [limiter EXCEPT
                           !.table = check.table,
                           !.window[u] = after,
                           !.last = [user |-> u,
                                     status |-> IF check.allowed THEN 200 ELSE 429,
                                     fresh |-> fresh]]
    /\ UNCHANGED <<chunker, embedder, normalizer, documents, chunkRecords,
                   vectorStore, blobs, request, tokens, labelRequests, ocr,
                   extraction, indexer,
                   ranking>>

InitLimiter ==
    /\ LimiterInit
    /\ chunker = Off /\ embedder = Off /\ normalizer = Off
    /\ documents = {} /\ chunkRecords = {} /\ vectorStore = {} /\ blobs = {}
    /\ request = Off
    /\ ranking = Off
    /\ extraction = Off /\ indexer = Off
    /\ tokens = Off /\ labelRequests = Off /\ ocr = Off

NextLimiter == LimiterTick \/ LimiterRequest

SpecLimiter == InitLimiter /\ [][NextLimiter]_vars

\* C14: in a user's window (the requests within WindowMs of the one that
\* opened it) exactly the first maxRequests requests are allowed and every
\* later one is rejected with 429; a request after the window has elapsed is
\* allowed and restarts the count at 1.
C14_RateLimitWindow ==
    limiter.last.user # "none" =>
        LET u == limiter.last.user
            w == limiter.window[u]
            N == LimitOf(limiter.endpoint)
        IN /\ \A v \in Users :
                 /\ limiter.window[v].allowed <= N
                 /\ limiter.window[v].rejected => limiter.window[v].allowed = N
           /\ limiter.last.status = 429 <=> (w.rejected /\ ~limiter.last.fresh)
           /\ limiter.last.fresh =>
                 /\ limiter.last.status = 200
                 /\ limiter.table[u].count = 1
                 /\ limiter.table[u].resetTime = w.opened + WindowMs

\* The request after maxRequests allowed ones in the same window has been
\* rejected, at the last instant of the window.
C14_Witness ==
    /\ limiter.last.status = 429
    /\ limiter.window[limiter.last.user].allowed = LimitOf(limiter.endpoint)
    /\ limiter.now = limiter.window[limiter.last.user].opened + WindowMs

(***************************************************************************)
(* The credential check of one endpoint on its own: the Authorization      *)
(* header test and verifyToken with its cache, for requests that arrive at *)
(* the times of a clock.  A credential is no header at all, a token with a *)
(* bad signature, or a signed token with an expiry time.                   *)
(***************************************************************************)
CacheTtlMs == 300000

\* The expiry times (exp) of the signed tokens.
TokenExpiries == {60000, 900000}

Credentials ==
    {[kind |-> "missing", exp |-> 0], [kind |-> "forged", exp |-> 0]}
        \cup {[kind |-> "signed", exp |-> e] : e \in TokenExpiries}

\* jwt.verify(token, JWT_SECRET): the signature is good and the token has
\* not expired.
JwtVerifies(token, now) == token.kind = "signed" /\ now < token.exp

\* tokenCache.get(token) of a token that has no entry.
NotCached == [expires |-> -1]

\* verifyToken(token) at time `now': whether it returns a payload, and the
\* cache after it.
verifyToken(cache, token, now) ==
    IF cache[token] # NotCached /\ now < cache[token].expires
    THEN [payload |-> TRUE, cache |-> cache]
    ELSE IF JwtVerifies(token, now)
    THEN [payload |-> TRUE,
          cache |-> [cache EXCEPT ![token] = [expires |-> now + CacheTtlMs]]]
    ELSE [payload |-> FALSE, cache |-> cache]

\* The head of the handler: 401 without a Bearer header or when verifyToken
\* returns null; 200 stands for a request that went on.
AuthStatus(cache, credential, now) ==
    IF credential.kind = "missing" THEN 401
    ELSE IF verifyToken(cache, credential, now).payload THEN 200
    ELSE 401

TokenDelays == {1, 60000, CacheTtlMs}

TokensInit ==
    \E e \in Endpoints :
        tokens = [endpoint |-> e, now |-> 0, ticks |-> 0,
                  cache |-> [t \in Credentials |-> NotCached],
                  last |-> [credential |-> [kind |-> "none", exp |-> 0],
                            at |-> 0, status |-> 0]]

TokensTick ==
    /\ tokens.ticks < MaxTicks
    /\ \E dt \in TokenDelays :
          tokens' = [tokens EXCEPT !.now = @ + dt, !.ticks = @ + 1]
    /\ UNCHANGED <<chunker, embedder, normalizer, documents, chunkRecords,
                   vectorStore, blobs, request, limiter, labelRequests, ocr,
                   extraction, indexer,
                   ranking>>

\* A request arrives with a credential.
TokenRequest ==
    /\ \E c \in Credentials :
          tokens' = [tokens EXCEPT
                       !.cache = IF c.kind = "missing" THEN @
                                 ELSE verifyToken(@, c, tokens.now).cache,
                       !.last = [credential |-> c, at |-> tokens.now,
                                 status |-> AuthStatus(tokens.cache, c, tokens.now)]]
    /\ UNCHANGED <<chunker, embedder, normalizer, documents, chunkRecords,
                   vectorStore, blobs, request, limiter, labelRequests, ocr,
                   extraction, indexer,
                   ranking>>

InitTokens ==
    /\ TokensInit
    /\ chunker = Off /\ embedder = Off /\ normalizer = Off
    /\ documents = {} /\ chunkRecords = {} /\ vectorStore = {} /\ blobs = {}
    /\ request = Off
    /\ ranking = Off
    /\ extraction = Off /\ indexer = Off
    /\ limiter = Off /\ labelRequests = Off /\ ocr = Off

NextTokens == TokensTick \/ TokenRequest

SpecTokens == InitTokens /\ [][NextTokens]_vars

\* C16: a request whose credential is missing, invalid or expired at the
\* time of the request is rejected with 401, whatever requests came before.
C16_BadCredentialRejected ==
    LET c == tokens.last.credential
    IN (c.kind \in {"missing", "forged"}
            \/ (c.kind = "signed" /\ tokens.last.at >= c.exp)) =>
           tokens.last.status = 401

(***************************************************************************)
(* The label POST handler over the documents collection: up to             *)
(* MaxLabelRequests requests in flight, each a sequence of its metadata    *)
(* store calls (findOne, updateOne, findOne), interleaved in any order.    *)
(* The collection holds one document of each user, as the upload handler   *)
(* inserts them: without a labels field.                                   *)
(***************************************************************************)
MaxLabelRequests == 2

MaxLabels == 2

LabelNames == {"x", "y"}

\* The labels arrays of the request bodies.
LabelLists == StringsUpTo(LabelNames, MaxLabels)

LabelActions == {"add", "remove", "set", "rename"}

\* The docId of a request body: a document of each user, and no document.
LabelDocIds == {1, 2, 3}

\* doc.labels || []
StoredLabels(d) == IF "labels" \in DOMAIN d THEN d.labels ELSE <<>>

InSeq(x, seq) == \E i \in 1..Len(seq) : seq[i] = x

\* { $addToSet: { labels: { $each: labels } } }: each element is appended
\* unless the array holds it already.
RECURSIVE AddToSet(_, _)
AddToSet(stored, labels) ==
    IF labels = <<>> THEN stored
    ELSE AddToSet(IF InSeq(Head(labels), stored) THEN stored
                  ELSE Append(stored, Head(labels)),
                  Tail(labels))

\* { $pull: { labels: { $in: labels } } }
Pull(stored, labels) ==
    LET Stays(x) == ~InSeq(x, labels)
    IN SelectSeq(stored, Stays)

\* The document after updateOperation; $pull leaves a document without the
\* field as it is.
ApplyUpdate(d, action, labels) ==
    IF action = "add"
    THEN [docId |-> d.docId, uploadedBy |-> d.uploadedBy,
          labels |-> AddToSet(StoredLabels(d), labels)]
    ELSE IF action = "remove"
    THEN IF "labels" \in DOMAIN d
         THEN [d EXCEPT !.labels = Pull(d.labels, labels)]
         ELSE d
    ELSE [docId |-> d.docId, uploadedBy |-> d.uploadedBy, labels |-> labels]

\* A lookup by document id alone.
MatchingAnyOwner(store, docId, userId) ==
    {d \in store : d.docId = docId}

\* The documents the filter { docId, uploadedBy: user.userId } matches.
MatchingOwned(store, docId, userId) ==
    {d \in store : d.docId = docId /\ d.uploadedBy = userId}

LabelRequestIds == 1..MaxLabelRequests

NoLabelRequest ==
    [pc |-> "idle", user |-> "none", docId |-> 0, labels |-> <<>>,
     action |-> "none", updated |-> FALSE, before |-> <<>>, after |-> <<>>,
     status |-> 0, responseLabels |-> <<>>]

LabelsInit ==
    /\ documents = {[docId |-> 1, uploadedBy |-> "u1"],
                    [docId |-> 2, uploadedBy |-> "u2"]}
    /\ labelRequests = [i \in LabelRequestIds |-> NoLabelRequest]

\* An authenticated request with a docId and a labels array has read its
\* body and is about to look the document up.
LabelPostBegin(i) ==
    /\ labelRequests[i].pc = "idle"
    /\ \E user \in Users, docId \in LabelDocIds, labels \in LabelLists,
          action \in LabelActions :
          labelRequests' = [labelRequests EXCEPT ![i] =
              [NoLabelRequest EXCEPT !.pc = "findOne", !.user = user,
                                     !.docId = docId, !.labels = labels,
                                     !.action = action]]
    /\ UNCHANGED <<chunker, embedder, normalizer, documents, chunkRecords,
                   vectorStore, blobs, request, limiter, tokens, ocr,
                   extraction, indexer,
                   ranking>>

\* findOne({ docId, uploadedBy }): 404 without a document; then the choice
\* of the update operation, 400 for an unknown action.
LabelFindOne(i) ==
    /\ labelRequests[i].pc = "findOne"
    /\ LET r == labelRequests[i]
           found == MatchingOwned(documents, r.docId, r.user)
       IN labelRequests' = [labelRequests EXCEPT ![i] =
              IF found = {} THEN [r EXCEPT !.pc = "done", !.status = 404]
              ELSE IF r.action \notin {"add", "remove", "set"}
              THEN [r EXCEPT !.pc = "done", !.status = 400]
              ELSE [r EXCEPT !.pc = "updateOne"]]
    /\ UNCHANGED <<chunker, embedder, normalizer, documents, chunkRecords,
                   vectorStore, blobs, request, limiter, tokens, ocr,
                   extraction, indexer,
                   ranking>>

\* result.matchedCount: the documents the filter of updateOne selected.
MatchedCount(d, e) == 1

\* result.modifiedCount: an update that leaves the document as it was
\* modifies none.
ModifiedCount(d, e) == IF e = d THEN 0 ELSE 1

\* updateOne({ docId, uploadedBy }, updateOperation): one atomic update of
\* the matching document; 400 when modifiedCount is 0.
LabelUpdateOne(i) ==
    /\ labelRequests[i].pc = "updateOne"
    /\ LET r == labelRequests[i]
           found == MatchingOwned(documents, r.docId, r.user)
       IN IF found = {}
          THEN /\ documents' = documents
               /\ labelRequests' = [labelRequests EXCEPT ![i] =
                      [r EXCEPT !.pc = "done", !.status = 400]]
          ELSE LET d == CHOOSE x \in found : TRUE
                   e == ApplyUpdate(d, r.action, r.labels)
               IN /\ documents' = (documents \ {d}) \cup {e}
                  /\ labelRequests' = [labelRequests EXCEPT ![i] =
                         [r EXCEPT !.pc = IF ModifiedCount(d, e) = 0 THEN "done"
                                          ELSE "findUpdated",
                                   !.status = IF ModifiedCount(d, e) = 0 THEN 400
                                              ELSE 0,
                                   !.updated = TRUE,
                                   !.before = StoredLabels(d),
                                   !.after = StoredLabels(e)]]
    /\ UNCHANGED <<chunker, embedder, normalizer, chunkRecords,
                   vectorStore, blobs, request, limiter, tokens, ocr,
                   extraction, indexer,
                   ranking>>

\* findOne of the updated document, and the success response.
LabelFindUpdated(i) ==
    /\ labelRequests[i].pc = "findUpdated"
    /\ LET r == labelRequests[i]
           found == MatchingOwned(documents, r.docId, r.user)
       IN labelRequests' = [labelRequests EXCEPT ![i] =
              [r EXCEPT !.pc = "done", !.status = 200,
                        !.responseLabels =
                            IF found = {} THEN <<>>
                            ELSE StoredLabels(CHOOSE x \in found : TRUE)]]
    /\ UNCHANGED <<chunker, embedder, normalizer, documents, chunkRecords,
                   vectorStore, blobs, request, limiter, tokens, ocr,
                   extraction, indexer,
                   ranking>>

InitLabels ==
    /\ LabelsInit
    /\ chunker = Off /\ embedder = Off /\ normalizer = Off
    /\ chunkRecords = {} /\ vectorStore = {} /\ blobs = {}
    /\ request = Off
    /\ ranking = Off
    /\ extraction = Off /\ indexer = Off
    /\ limiter = Off /\ tokens = Off /\ ocr = Off

NextLabels ==
    \E i \in LabelRequestIds :
        \/ LabelPostBegin(i)
        \/ LabelFindOne(i)
        \/ LabelUpdateOne(i)
        \/ LabelFindUpdated(i)

SpecLabels == InitLabels /\ [][NextLabels]_vars

SeqRange(seq) == {seq[i] : i \in 1..Len(seq)}

NoDuplicates(seq) ==
    \A i, j \in 1..Len(seq) : seq[i] = seq[j] => i = j

\* A label POST whose updateOne has been applied to a document.
LabelsUpdated(r) == r.pc \in {"findUpdated", "done"} /\ r.updated

\* C17: a label update (add, remove or set with labels A on a document that
\* stores L) leaves the document with L union A and no duplicate entry
\* (add), with L minus A (remove), with exactly A (set).
C17_LabelOperations ==
    \A i \in LabelRequestIds :
        LET r == labelRequests[i]
        IN LabelsUpdated(r) =>
              /\ r.action = "add" =>
                    /\ SeqRange(r.after) = SeqRange(r.before) \cup SeqRange(r.labels)
                    /\ NoDuplicates(r.after)
              /\ r.action = "remove" =>
                    SeqRange(r.after) = SeqRange(r.before) \ SeqRange(r.labels)
              /\ r.action = "set" => r.after = r.labels

\* The statement of C17 for the documents whose stored labels hold no
\* entry twice before the update.
C17_FromDuplicateFreeLabels ==
    \A i \in LabelRequestIds :
        LET r == labelRequests[i]
        IN (LabelsUpdated(r) /\ NoDuplicates(r.before)) =>
              /\ r.action = "add" =>
                    /\ SeqRange(r.after) = SeqRange(r.before) \cup SeqRange(r.labels)
                    /\ NoDuplicates(r.after)
              /\ r.action = "remove" =>
                    SeqRange(r.after) = SeqRange(r.before) \ SeqRange(r.labels)
              /\ r.action = "set" => r.after = r.labels

\* The collection holds a document with this id that this user uploaded.
OwnsDocument(userId, docId) ==
    \E d \in documents : d.docId = docId /\ d.uploadedBy = userId

\* C18: every step of a label POST that names a document the caller does
\* not own, or no document, leaves the documents collection as it is, and
\* the request ends with 404, whatever the other requests do in between.
C18_ForeignDocumentUntouched ==
    [][\A i \in LabelRequestIds :
          (labelRequests'[i] # labelRequests[i]
              /\ ~OwnsDocument(labelRequests'[i].user, labelRequests'[i].docId))
          => /\ documents' = documents
             /\ labelRequests'[i].pc = "done" => labelRequests'[i].status = 404
             /\ ~labelRequests'[i].updated]_vars

\* A request of u1 for the document of u2 has ended with 404 while a
\* request of u2 has changed the labels of that document.
C18_Witness ==
    \E i, j \in LabelRequestIds :
        /\ labelRequests[i].pc = "done" /\ labelRequests[i].status = 404
        /\ labelRequests[i].user = "u1" /\ labelRequests[i].docId = 2
        /\ labelRequests[j].user = "u2" /\ labelRequests[j].docId = 2
        /\ labelRequests[j].status = 200
        /\ labelRequests[j].after # labelRequests[j].before

(***************************************************************************)
(* ocrWithGemini on its own: one call, step by step through its attempts.  *)
(* The file service gives every upload a fresh name; every remote call may *)
(* succeed or throw.                                                       *)
(***************************************************************************)
DefaultRetries == 2

\* const maxWaitTime = 30000, and the 2000 ms between two polls.
MaxWaitTime == 30000

PollInterval == 2000

\* How long a getFile call takes: no time, or longer than the whole wait.
CallDurations == {0, MaxWaitTime}

\* Date.now() - startTime after d more milliseconds; the loop compares it
\* with maxWaitTime only, so it is kept up to there.
Elapsed(elapsed, d) == Min(elapsed + d, MaxWaitTime)

\* The most turns the polling loop can take in maxWaitTime; the count of
\* the turns is kept up to one more.
PollLimit == MaxWaitTime \div PollInterval

CountPoll(polls) == Min(polls + 1, PollLimit + 1)

\* A wait without the time bound.
WaitsOnUnbounded(state, elapsed) == state = "PROCESSING"

\* while (file.state === FileState.PROCESSING && (Date.now() - startTime) < maxWaitTime)
WaitsOn(state, elapsed) == state = "PROCESSING" /\ elapsed < MaxWaitTime

FileStates == {"PROCESSING", "ACTIVE", "FAILED"}

\* let uploadedFileName = null
NoFileName == 0

OcrInit == ocr = [pc |-> "idle"]

\* ocrWithGemini(localPath, mimeType, retries)
OcrCall ==
    /\ ocr.pc = "idle"
    /\ \E retries \in 0..DefaultRetries :
          ocr' = [pc |-> "upload", retries |-> retries, attempt |-> 0,
                  uploadedFileName |-> NoFileName, uploaded |-> {},
                  deleted |-> {}, fileState |-> "none", polls |-> 0,
                  elapsed |-> 0, error |-> "none", outcome |-> "none"]
    /\ UNCHANGED <<chunker, embedder, normalizer, documents, chunkRecords,
                   vectorStore, blobs, request, limiter, tokens, labelRequests,
                   extraction, indexer,
                   ranking>>

\* fileManager.uploadFile, then the first getFile.
OcrUpload ==
    /\ ocr.pc = "upload"
    /\ \/ ocr' = [ocr EXCEPT !.pc = "catch", !.error = "uploadFile error"]
       \/ LET name == ocr.attempt + 1
              stored == [ocr EXCEPT !.uploadedFileName = name,
                                    !.uploaded = @ \cup {name},
                                    !.polls = 0, !.elapsed = 0]
          IN \/ ocr' = [stored EXCEPT !.pc = "catch", !.error = "getFile error"]
             \/ \E state \in FileStates, d \in CallDurations :
                   ocr' = [stored EXCEPT !.pc = "wait", !.fileState = state,
                                         !.elapsed = Elapsed(0, d)]
    /\ UNCHANGED <<chunker, embedder, normalizer, documents, chunkRecords,
                   vectorStore, blobs, request, limiter, tokens, labelRequests,
                   extraction, indexer,
                   ranking>>

\* One turn of the polling loop: the file is still processing and the 30
\* seconds are not over; 2000 ms of sleep, then getFile.
OcrPoll ==
    /\ ocr.pc = "wait"
    /\ WaitsOn(ocr.fileState, ocr.elapsed)
    /\ \/ ocr' = [ocr EXCEPT !.pc = "catch", !.polls = CountPoll(@),
                              !.error = "getFile error"]
       \/ \E state \in FileStates, d \in CallDurations :
             ocr' = [ocr EXCEPT !.fileState = state, !.polls = CountPoll(@),
                                !.elapsed = Elapsed(@, PollInterval + d)]
    /\ UNCHANGED <<chunker, embedder, normalizer, documents, chunkRecords,
                   vectorStore, blobs, request, limiter, tokens, labelRequests,
                   extraction, indexer,
                   ranking>>

\* The loop is left (another state, or the time is over): a file that is
\* not ACTIVE throws, an ACTIVE one goes to generateContent, which returns
\* the text or throws.
OcrGenerate ==
    /\ ocr.pc = "wait"
    /\ ~WaitsOn(ocr.fileState, ocr.elapsed)
    /\ IF ocr.fileState # "ACTIVE"
       THEN ocr' = [ocr EXCEPT !.pc = "catch", !.error = "File processing failed"]
       ELSE \/ ocr' = [ocr EXCEPT !.pc = "catch", !.error = "generateContent error"]
            \/ ocr' = [ocr EXCEPT !.pc = "finally", !.outcome = "returned"]
    /\ UNCHANGED <<chunker, embedder, normalizer, documents, chunkRecords,
                   vectorStore, blobs, request, limiter, tokens, labelRequests,
                   extraction, indexer,
                   ranking>>

\* catch (error): rethrow on the last attempt, else the next attempt.
OcrCatch ==
    /\ ocr.pc = "catch"
    /\ ocr' = IF ocr.attempt = ocr.retries
              THEN [ocr EXCEPT !.pc = "finally", !.outcome = "threw"]
              ELSE [ocr EXCEPT !.pc = "upload", !.attempt = @ + 1]
    /\ UNCHANGED <<chunker, embedder, normalizer, documents, chunkRecords,
                   vectorStore, blobs, request, limiter, tokens, labelRequests,
                   extraction, indexer,
                   ranking>>

\* finally: deleteFile(uploadedFileName) when a name is held.
DeletedInFinally(o) ==
    IF o.uploadedFileName # NoFileName
    THEN o.deleted \cup {o.uploadedFileName}
    ELSE o.deleted

OcrFinally ==
    /\ ocr.pc = "finally"
    /\ ocr' = [ocr EXCEPT !.pc = "done", !.deleted = DeletedInFinally(ocr)]
    /\ UNCHANGED <<chunker, embedder, normalizer, documents, chunkRecords,
                   vectorStore, blobs, request, limiter, tokens, labelRequests,
                   extraction, indexer,
                   ranking>>

InitOcr ==
    /\ OcrInit
    /\ chunker = Off /\ embedder = Off /\ normalizer = Off
    /\ documents = {} /\ chunkRecords = {} /\ vectorStore = {} /\ blobs = {}
    /\ request = Off
    /\ ranking = Off
    /\ extraction = Off /\ indexer = Off
    /\ limiter = Off /\ tokens = Off /\ labelRequests = Off

NextOcr ==
    \/ OcrCall
    \/ OcrUpload
    \/ OcrPoll
    \/ OcrGenerate
    \/ OcrCatch
    \/ OcrFinally

SpecOcr == InitOcr /\ [][NextOcr]_vars

\* Every await of the function comes back: the remote calls answer or
\* throw, the timers fire.
SpecOcrFair == SpecOcr /\ WF_vars(NextOcr)

\* C19: when a call of ocrWithGemini has returned or thrown, a delete has
\* been issued for every file it uploaded, in whichever attempt.
C19_EveryUploadDeleted ==
    ocr.pc = "done" => ocr.uploaded \subseteq ocr.deleted

\* What the finally block does give: a delete of the file of the last
\* upload that succeeded.
C19_LastUploadDeleted ==
    (ocr.pc = "done" /\ ocr.uploaded # {}) =>
        ocr.uploadedFileName \in ocr.deleted

\* The place of the first call of `op' among the calls of the request, 0
\* if there is none.
CallNo(op) ==
    IF \E i \in 1..Len(request.calls) : request.calls[i].op = op
    THEN CHOOSE i \in 1..Len(request.calls) :
            /\ request.calls[i].op = op
            /\ \A j \in 1..(i - 1) : request.calls[j].op # op
    ELSE 0

\* The upload handler has answered a request in which it wrote the
\* temporary file for OCR.
WroteTempFile == UploadServed /\ CallNo("writeTempFile") > 0

\* C20: an upload request that wrote the temporary file for OCR has
\* attempted to delete it by the time the response is out, as the last of
\* its calls, whether the response is the success or any error.
C20_TempFileUnlinked ==
    WroteTempFile =>
        /\ CallNo("unlinkTempFile") > CallNo("writeTempFile")
        /\ request.calls[Len(request.calls)].op = "unlinkTempFile"

\* An upload that went through OCR and failed in the vector upsert, after
\* the first batch.
C20_Witness ==
    /\ WroteTempFile
    /\ request.fail = "upsert"
    /\ request.response.status = 500
    /\ CallNo("upsert") > CallNo("ocr")
    /\ CallNo("unlinkTempFile") > CallNo("upsert")

\* A query request in which a step after the validation threw into the
\* handler's catch block.
ThrewAfterValidation ==
    /\ request.phase = "served"
    /\ request.handler \in {"qa", "answer", "search"}
    /\ request.fail \in {"ensureIndex", "embed", "query", "namespaceNotFound",
                         "chat", "mongoFind"}
    /\ request.response.status >= 400

\* C21: a query request that fails after the validation is answered with
\* 404 exactly when the failure is the vector store's namespace-not-found
\* error, and with 500 for a failure of any other kind.
C21_NotFoundOnlyForNamespace ==
    ThrewAfterValidation =>
        /\ request.response.status = 404 <=> request.fail = "namespaceNotFound"
        /\ request.fail # "namespaceNotFound" => request.response.status = 500

\* What the catch blocks do give: 404 exactly for the errors whose message
\* holds both substrings, whichever step threw them.
C21_NotFoundByMessage ==
    ThrewAfterValidation =>
        /\ request.response.status \in {404, 500}
        /\ request.response.status = 404 <=> MessageWords \subseteq request.message.words

\* The embedding of the question or query of the request failed.
EmbeddingFailed ==
    /\ request.phase = "served"
    /\ request.handler \in {"qa", "answer", "search"}
    /\ request.fail = "embed"

\* C22: a query request whose question cannot be embedded ends with an
\* error response that carries the handler's embedding-failure message and
\* neither answer nor documents, and the request makes no vector query, no
\* metadata lookup and no chat-completion call.
C22_EmbeddingFailureIsFatal ==
    EmbeddingFailed =>
        /\ request.response.status = 500
        /\ request.response.error =
               (IF request.handler = "qa" THEN "Failed to process question"
                ELSE "Failed to process search query")
        /\ DOMAIN request.response = {"status", "error"}
        /\ \A i \in 1..Len(request.calls) :
               request.calls[i].op \notin {"query", "chat", "mongoFind"}

\* A document search whose query embedding failed, after the index check
\* and the embedding call were made.
C22_Witness ==
    /\ EmbeddingFailed
    /\ request.handler = "search"
    /\ request.calls = <<[op |-> "ensureIndex", arg |-> <<>>],
                         [op |-> "embed", arg |-> <<>>]>>
    /\ request.response.status = 500

\* A QA request whose vector query returned matches and whose
\* chat-completion call failed.
ChatFailedAfterMatches ==
    /\ request.phase = "served"
    /\ request.handler = "qa"
    /\ request.fail = "chat"
    /\ Len(request.matches) > 0

\* The sources of the response are those of the matches with a content, in
\* descending score order: one per such match, up to ten.
SourcesFromMatches ==
    LET sources == request.response.sources
        withContent == {i \in 1..Len(request.matches) : HasContent(request.matches[i])}
    IN /\ Len(sources) = Min(QAContextLimit, Cardinality(withContent))
       /\ \A k \in 1..Len(sources) :
             \E i \in withContent :
                /\ sources[k].docId = request.matches[i].metadata["docId"]
                /\ sources[k].relevanceScore = request.matches[i].score
       /\ \A k \in 1..(Len(sources) - 1) :
             sources[k].relevanceScore >= sources[k + 1].relevanceScore

\* C23: a QA request whose chat-completion call fails after matches were
\* retrieved ends with a success response: the fixed degraded answer and
\* the sources built from the retrieved chunks, never an error response.
C23_ChatFailureDegrades ==
    ChatFailedAfterMatches =>
        /\ request.response.status = 200
        /\ DOMAIN request.response = {"status", "answer", "sources"}
        /\ request.response.answer = "error while generating"
        /\ SourcesFromMatches

\* The same for the requests none of whose retrieved chunks carries a
\* content that is not a string.
C23_WithStringContents ==
    (ChatFailedAfterMatches /\ ~QASourcesThrow(request.matches)) =>
        /\ request.response.status = 200
        /\ DOMAIN request.response = {"status", "answer", "sources"}
        /\ request.response.answer = "error while generating"
        /\ SourcesFromMatches

(***************************************************************************)
(* The extraction stage of the rate-limited upload handler on its own:     *)
(* extractTextFromBuffer with its retries, the decision for OCR, the       *)
(* temporary file, ocrWithGemini as one call, and the test for blank text. *)
(* Texts are known by their length after trim().                           *)
(***************************************************************************)
ExtractRetries == 2

FileKinds == {"pdf", "docx", "txt", "image"}

\* The trimmed length of a text: blank, short of the OCR threshold, long
\* enough.
TextLengths == {0, 1, OcrThreshold}

NoText == -1

ExtractionInit == extraction = [pc |-> "idle"]

\* The handler calls extractTextFromBuffer(buffer, fileType, fileName).
ExtractionBegin ==
    /\ extraction.pc = "idle"
    /\ \E kind \in FileKinds, length \in TextLengths :
          /\ kind # "txt" => length = 0
          /\ extraction' = [pc |-> "extract", kind |-> kind, buffer |-> length,
                            attempt |-> 0, direct |-> NoText, ocrText |-> NoText,
                            wroteTemp |-> FALSE, error |-> "none"]
    /\ UNCHANGED <<chunker, embedder, normalizer, documents, chunkRecords,
                   vectorStore, blobs, request, limiter, tokens, labelRequests,
                   ocr, indexer,
                   ranking>>

\* One attempt of extractTextFromBuffer: "" for a PDF or an image, the
\* buffer as text for a text file, mammoth's result or its exception for a
\* DOCX; an exception is rethrown on the last attempt.
ExtractAttempt ==
    /\ extraction.pc = "extract"
    /\ \/ /\ extraction.kind \in {"pdf", "image"}
          /\ extraction' = [extraction EXCEPT !.pc = "extracted", !.direct = 0]
       \/ /\ extraction.kind = "txt"
          /\ extraction' = [extraction EXCEPT !.pc = "extracted",
                                              !.direct = extraction.buffer]
       \/ /\ extraction.kind = "docx"
          /\ \E length \in TextLengths :
                extraction' = [extraction EXCEPT !.pc = "extracted",
                                                 !.direct = length]
       \/ /\ extraction.kind = "docx"
          /\ extraction' =
                IF extraction.attempt = ExtractRetries
                THEN [extraction EXCEPT !.pc = "aborted", !.error = "mammoth error"]
                ELSE [extraction EXCEPT !.attempt = @ + 1]
    /\ UNCHANGED <<chunker, embedder, normalizer, documents, chunkRecords,
                   vectorStore, blobs, request, limiter, tokens, labelRequests,
                   ocr, indexer,
                   ranking>>

\* if (!fullText || fullText.trim().length < 100): the temporary file is
\* written for OCR, or the write throws.
ExtractionDecide ==
    /\ extraction.pc = "extracted"
    /\ IF NeedsOcr(extraction.direct)
       THEN \/ extraction' = [extraction EXCEPT !.pc = "ocr", !.wroteTemp = TRUE]
            \/ extraction' = [extraction EXCEPT !.pc = "aborted",
                                                !.error = "writeFile error"]
       ELSE extraction' = [extraction EXCEPT !.pc = "checkBlank"]
    /\ UNCHANGED <<chunker, embedder, normalizer, documents, chunkRecords,
                   vectorStore, blobs, request, limiter, tokens, labelRequests,
                   ocr, indexer,
                   ranking>>

\* fullText = await ocrWithGemini(tempFilePath, fileType): the transcript,
\* or the exception of its last attempt.
ExtractionOcr ==
    /\ extraction.pc = "ocr"
    /\ \/ \E length \in TextLengths :
             extraction' = [extraction EXCEPT !.pc = "checkBlank", !.ocrText = length]
       \/ extraction' = [extraction EXCEPT !.pc = "aborted", !.error = "ocr error"]
    /\ UNCHANGED <<chunker, embedder, normalizer, documents, chunkRecords,
                   vectorStore, blobs, request, limiter, tokens, labelRequests,
                   ocr, indexer,
                   ranking>>

\* fullText after the OCR branch: the transcript when OCR ran.
FullText(e) == IF e.wroteTemp THEN e.ocrText ELSE e.direct

\* if (!fullText?.trim()) throw; else on to chunkText.
ExtractionCheckBlank ==
    /\ extraction.pc = "checkBlank"
    /\ extraction' =
          IF FullText(extraction) <= 0
          THEN [extraction EXCEPT !.pc = "aborted",
                                  !.error = "Failed to extract any text from document"]
          ELSE [extraction EXCEPT !.pc = "chunking"]
    /\ UNCHANGED <<chunker, embedder, normalizer, documents, chunkRecords,
                   vectorStore, blobs, request, limiter, tokens, labelRequests,
                   ocr, indexer,
                   ranking>>

InitExtraction ==
    /\ ExtractionInit
    /\ indexer = Off
    /\ chunker = Off /\ embedder = Off /\ normalizer = Off
    /\ documents = {} /\ chunkRecords = {} /\ vectorStore = {} /\ blobs = {}
    /\ request = Off
    /\ ranking = Off
    /\ limiter = Off /\ tokens = Off /\ labelRequests = Off /\ ocr = Off

NextExtraction ==
    \/ ExtractionBegin
    \/ ExtractAttempt
    \/ ExtractionDecide
    \/ ExtractionOcr
    \/ ExtractionCheckBlank

SpecExtraction == InitExtraction /\ [][NextExtraction]_vars

\* The extraction stage has ended, in chunkText or in an error.
ExtractionEnded == extraction.pc \in {"chunking", "aborted"}

\* The upload was aborted because no text came out: by the exception of the
\* extraction or of OCR, or by the test for blank text.
AbortedForExtraction ==
    /\ extraction.pc = "aborted"
    /\ extraction.error \in {"mammoth error", "ocr error",
                             "Failed to extract any text from document"}

\* C24: the extraction stage aborts the upload only when neither the direct
\* extraction nor OCR produced a non-blank text: a non-blank directly
\* extracted text or a non-blank transcript takes the upload on to chunking.
C24_AbortOnlyWithoutAnyText ==
    (ExtractionEnded /\ (extraction.direct > 0 \/ extraction.ocrText > 0))
        => ~AbortedForExtraction

\* What the stage does give: a directly extracted text of 100 characters or
\* more, and a non-blank transcript, take the upload on to chunking.
C24_LongOrTranscribedTextProceeds ==
    (ExtractionEnded /\ (extraction.direct >= OcrThreshold \/ extraction.ocrText > 0))
        => ~AbortedForExtraction /\ extraction.pc = "chunking"

\* Every call of `first' of the request comes before every call of `then'.
CallsInOrder(first, then) ==
    \A i, j \in 1..Len(request.calls) :
        (request.calls[i].op = first /\ request.calls[j].op = then) => i < j

\* C25: the external calls of one upload request come stage by stage: blob
\* upload, text extraction, OCR, embedding, vector indexing (index check
\* and every upsert batch), and only then the inserts of the Document and
\* Chunk records.
C25_StagesInOrder ==
    UploadServed =>
        /\ CallsInOrder("blobUpload", "extractText")
        /\ CallsInOrder("extractText", "ocr")
        /\ CallsInOrder("ocr", "embed")
        /\ CallsInOrder("embed", "ensureIndex")
        /\ CallsInOrder("ensureIndex", "upsert")
        /\ CallsInOrder("upsert", "insertDocument")
        /\ CallsInOrder("upsert", "insertChunks")

\* The order the handler does keep: the records are inserted after the
\* index check and before the first upsert batch.
C25_PersistenceBeforeUpsert ==
    UploadServed =>
        /\ CallsInOrder("blobUpload", "extractText")
        /\ CallsInOrder("extractText", "ocr")
        /\ CallsInOrder("ocr", "embed")
        /\ CallsInOrder("embed", "ensureIndex")
        /\ CallsInOrder("ensureIndex", "insertDocument")
        /\ CallsInOrder("insertDocument", "insertChunks")
        /\ CallsInOrder("insertChunks", "upsert")

(***************************************************************************)
(* ensurePineconeIndex on its own: one call, the listing, the create and   *)
(* the readiness polls step by step.  The calls it issues are recorded.    *)
(***************************************************************************)
MaxAttempts == 30

TargetIndex == "target"

\* indexList.indexes of the listing: undefined, or the names of the indexes.
IndexListings == {Undefined} \cup {<<>>, <<"other">>, <<TargetIndex>>,
                                   <<"other", TargetIndex>>}

\* indexList.indexes?.some(index => index.name === indexName)
IndexExists(listing) ==
    listing # Undefined /\ \E i \in 1..Len(listing) : listing[i] = TargetIndex

\* A loop that polls once more than the bound.
PollsAgainOffByOne(isReady, attempts) == ~isReady /\ attempts <= MaxAttempts

\* while (!isReady && attempts < maxAttempts)
PollsAgain(isReady, attempts) == ~isReady /\ attempts < MaxAttempts

IndexerInit == indexer = [pc |-> "idle"]

\* pinecone.listIndexes(): the listing, or an exception, which is rethrown.
ListIndexes ==
    /\ indexer.pc = "idle"
    /\ \/ \E listing \in IndexListings :
             indexer' = [pc |-> IF IndexExists(listing) THEN "returned" ELSE "create",
                         listed |-> TRUE, listing |-> listing, creates |-> <<>>,
                         isReady |-> FALSE, attempts |-> 0, polls |-> 0]
       \/ indexer' = [pc |-> "threw", listed |-> FALSE, listing |-> Undefined,
                      creates |-> <<>>, isReady |-> FALSE, attempts |-> 0,
                      polls |-> 0]
    /\ UNCHANGED <<chunker, embedder, normalizer, documents, chunkRecords,
                   vectorStore, blobs, request, limiter, tokens, labelRequests,
                   ocr, extraction,
                   ranking>>

\* pinecone.createIndex({ name, dimension: 768, metric: 'cosine', ... })
CreateIndex ==
    /\ indexer.pc = "create"
    /\ \E created \in BOOLEAN :
          indexer' = [indexer EXCEPT
                         !.pc = IF created THEN "poll" ELSE "threw",
                         !.creates = Append(@, [name |-> TargetIndex,
                                                dimension |-> IndexDimension,
                                                metric |-> "cosine"])]
    /\ UNCHANGED <<chunker, embedder, normalizer, documents, chunkRecords,
                   vectorStore, blobs, request, limiter, tokens, labelRequests,
                   ocr, extraction,
                   ranking>>

\* One turn of the readiness loop: describeIndexStats answers, or throws
\* and the attempt is counted.
PollIndex ==
    /\ indexer.pc = "poll"
    /\ PollsAgain(indexer.isReady, indexer.attempts)
    /\ \/ indexer' = [indexer EXCEPT !.isReady = TRUE, !.polls = @ + 1]
       \/ indexer' = [indexer EXCEPT !.attempts = @ + 1, !.polls = @ + 1]
    /\ UNCHANGED <<chunker, embedder, normalizer, documents, chunkRecords,
                   vectorStore, blobs, request, limiter, tokens, labelRequests,
                   ocr, extraction,
                   ranking>>

\* After the loop: if (!isReady) throw new Error("... failed to become ready
\* within timeout").
LeavePollLoop ==
    /\ indexer.pc = "poll"
    /\ ~PollsAgain(indexer.isReady, indexer.attempts)
    /\ indexer' = [indexer EXCEPT !.pc = IF indexer.isReady THEN "returned"
                                         ELSE "notReady"]
    /\ UNCHANGED <<chunker, embedder, normalizer, documents, chunkRecords,
                   vectorStore, blobs, request, limiter, tokens, labelRequests,
                   ocr, extraction,
                   ranking>>

InitIndexer ==
    /\ IndexerInit
    /\ chunker = Off /\ embedder = Off /\ normalizer = Off
    /\ documents = {} /\ chunkRecords = {} /\ vectorStore = {} /\ blobs = {}
    /\ request = Off
    /\ ranking = Off
    /\ limiter = Off /\ tokens = Off /\ labelRequests = Off /\ ocr = Off
    /\ extraction = Off

NextIndexer ==
    \/ ListIndexes
    \/ CreateIndex
    \/ PollIndex
    \/ LeavePollLoop

SpecIndexer == InitIndexer /\ [][NextIndexer]_vars

\* The call of ensurePineconeIndex has returned or thrown.
IndexerEnded == indexer.pc \in {"returned", "threw", "notReady"}

\* C26: ensurePineconeIndex issues createIndex (768 dimensions, cosine)
\* exactly when the listing came back without the target index; with the
\* index listed it makes no create and no poll; after a create it polls at
\* most 30 times, returns at the first poll that answers, and throws the
\* not-ready error when 30 polls have failed.
C26_CreateAndBoundedPolls ==
    /\ indexer.pc # "idle" => indexer.polls <= MaxAttempts
    /\ IndexerEnded =>
          /\ Len(indexer.creates) =
                (IF indexer.listed /\ ~IndexExists(indexer.listing) THEN 1 ELSE 0)
          /\ \A i \in 1..Len(indexer.creates) :
                /\ indexer.creates[i].dimension = 768
                /\ indexer.creates[i].metric = "cosine"
          /\ (indexer.listed /\ IndexExists(indexer.listing)) =>
                indexer.pc = "returned" /\ indexer.polls = 0
          /\ (indexer.pc = "returned" /\ Len(indexer.creates) = 1) =>
                indexer.isReady /\ indexer.polls = indexer.attempts + 1
          /\ indexer.pc = "notReady" =>
                ~indexer.isReady /\ indexer.polls = MaxAttempts
                                 /\ indexer.attempts = MaxAttempts

\* The index was missing from a listing of other indexes, was created, and
\* none of the 30 polls answered.
C26_Witness ==
    /\ indexer.pc = "notReady"
    /\ indexer.listing = <<"other">>
    /\ Len(indexer.creates) = 1
    /\ indexer.polls = 30

\* The call of ocrWithGemini is under way or over.
OcrCalled == ocr.pc # "idle"

\* C27: in ocrWithGemini each attempt's readiness poll ends when the file
\* leaves the processing state or the 30 seconds are over, an attempt whose
\* file is then not ready fails with the processing error, there are at
\* most 3 attempts, the error of the last one is thrown, and every call
\* comes to its end, even when the service never reports the file ready.
C27_OcrTerminates ==
    /\ [](OcrCalled =>
            /\ ocr.attempt <= ocr.retries /\ ocr.retries <= 2
            /\ Cardinality(ocr.uploaded) <= 3
            /\ ocr.polls <= PollLimit
            /\ (ocr.pc = "catch" /\ ocr.error = "File processing failed")
                  => ocr.fileState # "ACTIVE"
            /\ (ocr.pc \in {"finally", "done"} /\ ocr.outcome = "returned")
                  => ocr.fileState = "ACTIVE"
            /\ (ocr.pc \in {"finally", "done"} /\ ocr.outcome = "threw")
                  => ocr.attempt = ocr.retries /\ ocr.error # "none")
    /\ OcrCalled ~> (ocr.pc = "done")

\* A call whose file was still processing when the 30 seconds of the third
\* attempt were over, and which threw the processing error.
C27_Witness ==
    /\ ocr.pc = "done"
    /\ ocr.outcome = "threw"
    /\ ocr.attempt = 2
    /\ ocr.fileState = "PROCESSING"
    /\ ocr.elapsed = MaxWaitTime
    /\ ocr.polls > 0
    /\ ocr.error = "File processing failed"

(***************************************************************************)
(* ocrWithGemini of the second upload handler of the file on its own: one  *)
(* upload, the wait for the file, the transcript, the delete.  The turns   *)
(* of the waiting loop are counted up to MaxCountedPolls, and told apart   *)
(* as odd and even beyond.                                                 *)
(***************************************************************************)
MaxCountedPolls == 100

\* while (file.state === FileState.PROCESSING)
LegacyWaitsOn(state) == state = "PROCESSING"

LegacyOcrInit == ocr = [pc |-> "idle"]

LegacyOcrCall ==
    /\ ocr.pc = "idle"
    /\ ocr' = [pc |-> "upload", fileState |-> "none", polls |-> 0,
               oddTurn |-> FALSE, uploaded |-> FALSE, deleted |-> FALSE]
    /\ UNCHANGED <<chunker, embedder, normalizer, documents, chunkRecords,
                   vectorStore, blobs, request, limiter, tokens, labelRequests,
                   extraction, indexer,
                   ranking>>

\* fileManager.uploadFile, then the first getFile; an exception goes to
\* the catch, which throws "OCR failed: ...".
LegacyOcrUpload ==
    /\ ocr.pc = "upload"
    /\ \/ ocr' = [ocr EXCEPT !.pc = "threw"]
       \/ ocr' = [ocr EXCEPT !.pc = "threw", !.uploaded = TRUE]
       \/ \E state \in FileStates :
             ocr' = [ocr EXCEPT !.pc = "wait", !.uploaded = TRUE,
                                !.fileState = state]
    /\ UNCHANGED <<chunker, embedder, normalizer, documents, chunkRecords,
                   vectorStore, blobs, request, limiter, tokens, labelRequests,
                   extraction, indexer,
                   ranking>>

\* One turn of the loop: 2000 ms of sleep, then getFile.
LegacyOcrPoll ==
    /\ ocr.pc = "wait"
    /\ LegacyWaitsOn(ocr.fileState)
    /\ \/ ocr' = [ocr EXCEPT !.pc = "threw"]
       \/ \E state \in FileStates :
             ocr' = [ocr EXCEPT !.fileState = state,
                                !.polls = Min(@ + 1, MaxCountedPolls),
                                !.oddTurn = ~@]
    /\ UNCHANGED <<chunker, embedder, normalizer, documents, chunkRecords,
                   vectorStore, blobs, request, limiter, tokens, labelRequests,
                   extraction, indexer,
                   ranking>>

\* After the loop: a file that is not ACTIVE throws; generateContent
\* returns or throws.
LegacyOcrGenerate ==
    /\ ocr.pc = "wait"
    /\ ~LegacyWaitsOn(ocr.fileState)
    /\ IF ocr.fileState # "ACTIVE"
       THEN ocr' = [ocr EXCEPT !.pc = "threw"]
       ELSE \/ ocr' = [ocr EXCEPT !.pc = "threw"]
            \/ ocr' = [ocr EXCEPT !.pc = "delete"]
    /\ UNCHANGED <<chunker, embedder, normalizer, documents, chunkRecords,
                   vectorStore, blobs, request, limiter, tokens, labelRequests,
                   extraction, indexer,
                   ranking>>

\* fileManager.deleteFile, then the return of the text.
LegacyOcrDelete ==
    /\ ocr.pc = "delete"
    /\ \/ ocr' = [ocr EXCEPT !.pc = "returned", !.deleted = TRUE]
       \/ ocr' = [ocr EXCEPT !.pc = "threw"]
    /\ UNCHANGED <<chunker, embedder, normalizer, documents, chunkRecords,
                   vectorStore, blobs, request, limiter, tokens, labelRequests,
                   extraction, indexer,
                   ranking>>

InitLegacyOcr ==
    /\ LegacyOcrInit
    /\ chunker = Off /\ embedder = Off /\ normalizer = Off
    /\ documents = {} /\ chunkRecords = {} /\ vectorStore = {} /\ blobs = {}
    /\ request = Off
    /\ ranking = Off
    /\ limiter = Off /\ tokens = Off /\ labelRequests = Off
    /\ extraction = Off /\ indexer = Off

NextLegacyOcr ==
    \/ LegacyOcrCall
    \/ LegacyOcrUpload
    \/ LegacyOcrPoll
    \/ LegacyOcrGenerate
    \/ LegacyOcrDelete

SpecLegacyOcr == InitLegacyOcr /\ [][NextLegacyOcr]_vars

\* Every await of the function comes back.
SpecLegacyOcrFair == SpecLegacyOcr /\ WF_vars(NextLegacyOcr)

\* C28: every waiting and retry loop of the ingestion code ends after a
\* bounded number of turns even when the service stays in its processing
\* state for ever; here the readiness wait of ocrWithGemini of the second
\* upload handler: every call returns or throws.
C28_ReadinessWaitEnds ==
    (ocr.pc # "idle") ~> (ocr.pc \in {"returned", "threw"})

(***************************************************************************)
(* The ranking of one document search: the matches of the query, grouped   *)
(* by document, sorted and cut, and the results built from them.           *)
(***************************************************************************)

MaxRankMatches == 13

RankScores == {1, 2, 3}

RankLengths == {0, 1, 2, 3, 4, MaxRankMatches}

\* The number of documents the chunks of a namespace belong to in turn.
DocCycles == {1, 2, 3, MaxRankMatches - 2, MaxRankMatches - 1, MaxRankMatches}

ContentLengths == <<0, 1, PreviewLimit, PreviewLimit + 1>>

ChunkMarks == <<"a", "b", "c", "d", "e", "f", "g", "h", "i", "j", "k", "l",
                "m", "n", "o", "p", "q">>

\* The text of a chunk: its mark, then filling.
TextOf(mark, n) == [k \in 1..n |-> IF k = 1 THEN mark ELSE "x"]

\* The matches come by descending similarity: the first `high' with the
\* highest score, the next `mid' with the middle one, the rest the lowest.
RankScore(i, high, mid) ==
    IF i <= high THEN 3 ELSE IF i <= high + mid THEN 2 ELSE 1

RankContent(i, shift) ==
    TextOf(ChunkMarks[((i - 1) % Len(ChunkMarks)) + 1],
           ContentLengths[((i + shift) % Len(ContentLengths)) + 1])

\* The metadata a match carries; the match at noDocAt has no document id.
RankMetadata(i, cycle, shift, noDocAt) ==
    LET base == [content |-> RankContent(i, shift), chunkId |-> i,
                 uploadedBy |-> "u1"]
    IN IF i = noDocAt THEN base
       ELSE base @@ [docId |-> ((i - 1) % cycle) + 1]

RankMatches(n, cycle, high, mid, shift, noDocAt) ==
    [i \in 1..n |-> [id |-> i, score |-> RankScore(i, high, mid),
                     metadata |-> RankMetadata(i, cycle, shift, noDocAt)]]

\* The documents collection: one document per id, the first of them
\* another user's when `foreign' says so.
RankStore(cycle, foreign) ==
    {[docId |-> d, uploadedBy |-> IF foreign /\ d = 1 THEN "u2" ELSE "u1",
      totalChunks |-> 1, metadata |-> [title |-> <<"t">>]] : d \in 1..cycle}

RankingInit == ranking = [phase |-> "idle"]

\* index.namespace(namespace).query({ topK: 20, includeMetadata: true })
RankingQuery ==
    /\ ranking.phase = "idle"
    /\ \E n \in RankLengths, cycle \in DocCycles, high \in 0..MaxRankMatches,
          mid \in 0..MaxRankMatches, shift \in 0..1, noDocAt \in 0..3,
          foreign \in BOOLEAN :
          /\ n <= SearchTopK
          /\ high + mid <= n
          /\ noDocAt <= n
          /\ ranking' = [phase |-> "matched",
                         matches |-> RankMatches(n, cycle, high, mid, shift,
                                                 noDocAt),
                         store |-> RankStore(cycle, foreign)]
    /\ UNCHANGED <<chunker, embedder, normalizer, documents, chunkRecords,
                   vectorStore, blobs, request, limiter, tokens, labelRequests,
                   ocr, extraction, indexer>>

\* The rest of the handler: the guard for no matches, the grouping, the
\* sort, the lookup and the results.
RankingRespond ==
    /\ ranking.phase = "matched"
    /\ ranking' = [phase |-> "done", matches |-> ranking.matches,
                   store |-> ranking.store,
                   documents |->
                       IF Len(ranking.matches) = 0 THEN <<>>
                       ELSE SearchResults(ranking.store, ranking.matches, "u1")]
    /\ UNCHANGED <<chunker, embedder, normalizer, documents, chunkRecords,
                   vectorStore, blobs, request, limiter, tokens, labelRequests,
                   ocr, extraction, indexer>>

InitRanking ==
    /\ RankingInit
    /\ chunker = Off /\ embedder = Off /\ normalizer = Off
    /\ documents = {} /\ chunkRecords = {} /\ vectorStore = {} /\ blobs = {}
    /\ request = Off
    /\ limiter = Off /\ tokens = Off /\ labelRequests = Off /\ ocr = Off
    /\ extraction = Off /\ indexer = Off

NextRanking ==
    \/ RankingQuery
    \/ RankingRespond

SpecRanking == InitRanking /\ [][NextRanking]_vars

\* The matches of a request that name the document.
MatchesOfDocument(matches, docId) ==
    {i \in 1..Len(matches) :
        HasDocId(matches[i]) /\ MatchDocId(matches[i]) = docId}

RECURSIVE ScoreSum(_, _)
ScoreSum(matches, indices) ==
    IF indices = {} THEN 0
    ELSE LET i == CHOOSE j \in indices : TRUE
         IN matches[i].score + ScoreSum(matches, indices \ {i})

\* C29: in document search each returned document carries the mean of the
\* scores of its matching chunks (the sum over their number) and their
\* number as chunkCount, a match without a document id counts for no
\* document, the documents come by non-increasing mean, each once, and
\* there are at most ten of them.
C29_RankedByMeanScore ==
    ranking.phase = "done" =>
        LET docs == ranking.documents
        IN /\ Len(docs) <= 10
           /\ \A k \in 1..Len(docs) :
                 LET mine == MatchesOfDocument(ranking.matches, docs[k].docId)
                 IN /\ mine # {}
                    /\ docs[k].chunkCount = Cardinality(mine)
                    /\ docs[k].relevanceScore =
                           <<ScoreSum(ranking.matches, mine), Cardinality(mine)>>
           /\ \A k, l \in 1..Len(docs) : k # l => docs[k].docId # docs[l].docId
           /\ \A k \in 1..(Len(docs) - 1) :
                 docs[k].relevanceScore[1] * docs[k + 1].relevanceScore[2]
                     >= docs[k + 1].relevanceScore[1] * docs[k].relevanceScore[2]

\* More than ten documents matched, one of them with several chunks and
\* ranked, one match had no document id, and ten documents were returned.
C29_Witness ==
    /\ ranking.phase = "done"
    /\ Len(ranking.documents) = 10
    /\ Cardinality({MatchDocId(ranking.matches[i]) :
                       i \in {j \in 1..Len(ranking.matches) :
                                 HasDocId(ranking.matches[j])}}) > 10
    /\ \E i \in 1..Len(ranking.matches) : ~HasDocId(ranking.matches[i])
    /\ \E k \in 1..Len(ranking.documents) : ranking.documents[k].chunkCount > 1

MaxQAMatches == 15

QALengths == {0, 1, 2, 3, 4, MaxQAMatches - 1, MaxQAMatches}

\* The matches of a QA query: those of a namespace as above, each with a
\* document id, the first with a content that is a number when `number'.
QAMatches(n, cycle, high, mid, shift, number) ==
    [i \in 1..n |->
        [id |-> i, score |-> RankScore(i, high, mid),
         metadata |-> [content |-> IF number /\ i = 1 THEN NumberValue
                                   ELSE RankContent(i, shift),
                       docId |-> ((i - 1) % cycle) + 1,
                       chunkId |-> i, uploadedBy |-> "u1"]]]

\* index.namespace(namespace).query({ topK: 15, includeMetadata: true })
QARankingQuery ==
    /\ ranking.phase = "idle"
    /\ \E n \in QALengths, cycle \in {1, 3}, high \in 0..MaxQAMatches,
          mid \in 0..MaxQAMatches, shift \in 0..1, number \in BOOLEAN,
          fail \in {"none", "chat"} :
          /\ n <= QATopK
          /\ high + mid <= n
          /\ ranking' = [phase |-> "matched", fail |-> fail,
                         matches |-> QAMatches(n, cycle, high, mid, shift,
                                               number)]
    /\ UNCHANGED <<chunker, embedder, normalizer, documents, chunkRecords,
                   vectorStore, blobs, request, limiter, tokens, labelRequests,
                   ocr, extraction, indexer>>

\* The rest of the handler: the guard for no matches, the relevant
\* content, the chat call, the sources and the response.
QARankingRespond ==
    /\ ranking.phase = "matched"
    /\ ranking' = [phase |-> "done", fail |-> ranking.fail,
                   matches |-> ranking.matches,
                   calls |-> QAChatCalls(ranking.fail, ranking.matches),
                   response |-> QAResponse(ranking.fail, ranking.matches,
                                           NoMessage)]
    /\ UNCHANGED <<chunker, embedder, normalizer, documents, chunkRecords,
                   vectorStore, blobs, request, limiter, tokens, labelRequests,
                   ocr, extraction, indexer>>

NextQARanking ==
    \/ QARankingQuery
    \/ QARankingRespond

SpecQARanking == InitRanking /\ [][NextQARanking]_vars

\* The matches with a content that is not empty.
ContentBearing(matches) ==
    {i \in 1..Len(matches) : matches[i].metadata["content"] # <<>>}

\* The match a block of the context was made of.
MatchOfBlock(matches, block) ==
    CHOOSE i \in ContentBearing(matches) :
        matches[i].metadata["content"] = block[2]

C32_StoredLabelsDuplicateFree ==
    \A d \in documents : NoDuplicates(StoredLabels(d))

\* The QA request answered with sources: the query returned and nothing
\* threw afterwards.
QAAnswered ==
    /\ request.phase = "served"
    /\ request.handler = "qa"
    /\ request.fail \in {"none", "chat"}
    /\ request.response.status = 200

\* Match m is in the context of the request's chat call and in the sources
\* of its response.
InContextAndSources(m) ==
    /\ \E c \in ChatCallsMade : \E k \in 1..Len(request.calls[c].arg) :
          request.calls[c].arg[k] = <<m.metadata["docId"], m.metadata["content"]>>
    /\ \E k \in 1..Len(request.response.sources) :
          /\ request.response.sources[k].docId = m.metadata["docId"]
          /\ request.response.sources[k].relevanceScore = m.score

\* C33: the QA handler scopes retrieval by the namespace alone: every
\* content-bearing match of the namespace (fewer than the context takes)
\* is in the context sent to the chat model and in the sources returned,
\* whoever uploaded it, the requesting user or another.
C33_NoOwnershipFilterInQA ==
    QAAnswered =>
        \A i \in 1..Len(request.matches) :
            (HasContent(request.matches[i]) /\ Len(request.matches) <= QAContextLimit)
                => InContextAndSources(request.matches[i])

\* A user asks in a namespace another user uploaded into; a chunk of the
\* other user's document is in the context and in the sources.
C33_Witness ==
    /\ QAAnswered
    /\ \E i \in 1..Len(request.matches) :
          /\ request.matches[i].metadata["uploadedBy"] # request.user
          /\ \E d \in documents :
                /\ d.docId = request.matches[i].id[1]
                /\ d.uploadedBy # request.user
          /\ HasContent(request.matches[i])
          /\ InContextAndSources(request.matches[i])

(***************************************************************************)
(* The rate limiter of one endpoint under the requests of one user, with   *)
(* the times of the requests that passed during the last WindowMs.         *)
(***************************************************************************)
SlidingInit ==
    \E e \in Endpoints :
        limiter = [endpoint |-> e, now |-> 0, ticks |-> 0,
                   table |-> [u \in Users |-> NoEntry], passed |-> <<>>]

\* The clock advances.
SlidingTick ==
    /\ limiter.ticks < MaxTicks
    /\ \E dt \in Delays :
          limiter' = [limiter EXCEPT !.now = @ + dt, !.ticks = @ + 1]
    /\ UNCHANGED <<chunker, embedder, normalizer, documents, chunkRecords,
                   vectorStore, blobs, request, tokens, labelRequests, ocr,
                   extraction, indexer, ranking>>

\* if (!checkRateLimit(user.userId)) return 429, for a request of user u1.
SlidingRequest ==
    /\ LET check == checkRateLimit(limiter.table, "u1", limiter.now,
                                   LimitOf(limiter.endpoint))
           Recent(t) == t > limiter.now - WindowMs
           recent == SelectSeq(limiter.passed, Recent)
       IN limiter' = [limiter EXCEPT
                         !.table = check.table,
                         !.passed = IF check.allowed
                                    THEN Append(recent, limiter.now)
                                    ELSE recent]
    /\ UNCHANGED <<chunker, embedder, normalizer, documents, chunkRecords,
                   vectorStore, blobs, request, tokens, labelRequests, ocr,
                   extraction, indexer, ranking>>

InitSliding ==
    /\ SlidingInit
    /\ chunker = Off /\ embedder = Off /\ normalizer = Off
    /\ documents = {} /\ chunkRecords = {} /\ vectorStore = {} /\ blobs = {}
    /\ request = Off
    /\ tokens = Off /\ labelRequests = Off /\ ocr = Off
    /\ extraction = Off /\ indexer = Off /\ ranking = Off

NextSliding == SlidingTick \/ SlidingRequest

SpecSliding == InitSliding /\ [][NextSliding]_vars

\* The requests that passed in the interval of length WindowMs that ends
\* now.
PassedInWindow ==
    Cardinality({i \in 1..Len(limiter.passed) :
                    limiter.passed[i] > limiter.now - WindowMs})

\* C34: of the requests of one user to one endpoint, at most maxRequests
\* pass the rate limiter in any time interval of length windowMs; here the
\* interval that ends now.
C34_SlidingWindowBound ==
    PassedInWindow <= LimitOf(limiter.endpoint)

\* What the limiter does bound: the allowed requests between two resets of
\* the user's entry, and so fewer than twice maxRequests in any interval
\* of length windowMs.
C34_FixedWindowBound ==
    /\ limiter.table["u1"].count <= LimitOf(limiter.endpoint)
    /\ PassedInWindow < 2 * LimitOf(limiter.endpoint)

\* The entries of the rate-limit table hold a count from 1 to maxRequests.
TableCountsInRange ==
    \A u \in Users :
        limiter.table[u] # NoEntry =>
            /\ 1 <= limiter.table[u].count
            /\ limiter.table[u].count <= LimitOf(limiter.endpoint)

\* One step of the limiter: the clock leaves the table alone; a call of
\* checkRateLimit leaves the entries of the other users alone, leaves the
\* caller's entry alone when it rejects, and when it allows either adds one
\* to the caller's count or opens a window with count 1 that ends WindowMs
\* from now.
TableStep ==
    IF limiter'.now # limiter.now \/ limiter'.last.user = "none"
    THEN limiter'.table = limiter.table
    ELSE LET u == limiter'.last.user
         IN /\ \A v \in Users \ {u} : limiter'.table[v] = limiter.table[v]
            /\ limiter'.last.status = 429 => limiter'.table = limiter.table
            /\ limiter'.last.status = 200 =>
                  \/ /\ limiter.table[u] # NoEntry
                     /\ limiter'.table[u] =
                            [count |-> limiter.table[u].count + 1,
                             resetTime |-> limiter.table[u].resetTime]
                  \/ limiter'.table[u] =
                         [count |-> 1, resetTime |-> limiter.now + WindowMs]

\* C35: in every state each entry of the rate-limit table has a count from
\* 1 to maxRequests, and every step changes the table as checkRateLimit
\* does in one piece: nothing on a rejection, plus one or a reset to 1 for
\* the caller on an allowed call, nothing for the other users,
\* however the requests of the users interleave.
C35_TableInvariant ==
    [](TableCountsInRange) /\ [][TableStep]_vars

\* A user at the limit has been rejected while the other user has an
\* entry of its own below the limit, opened in a later window.
C35_Witness ==
    \E u, v \in Users :
        /\ u # v
        /\ limiter.last.user = u /\ limiter.last.status = 429
        /\ limiter.table[u].count = LimitOf(limiter.endpoint)
        /\ limiter.table[v] # NoEntry
        /\ limiter.table[v].count < LimitOf(limiter.endpoint)
        /\ limiter.table[v].resetTime # limiter.table[u].resetTime

(***************************************************************************)
(* ensurePineconeIndex called by several requests at once: each call is    *)
(* its own sequence of awaits over the one index service, which knows      *)
(* whether the index exists and refuses to create a name twice.            *)
(***************************************************************************)
MaxRacers == 2

Racers == 1..MaxRacers

RacerIdle == [pc |-> "idle", attempts |-> 0, isReady |-> FALSE, error |-> "none"]

RaceInit ==
    indexer = [exists |-> FALSE, creates |-> 0,
               calls |-> [i \in Racers |-> RacerIdle]]

\* await pinecone.listIndexes(), and the test of indexExists.
RaceList(i) ==
    /\ indexer.calls[i].pc = "idle"
    /\ indexer' = [indexer EXCEPT
                      !.calls[i].pc = IF indexer.exists THEN "returned"
                                      ELSE "create"]
    /\ UNCHANGED <<chunker, embedder, normalizer, documents, chunkRecords,
                   vectorStore, blobs, request, limiter, tokens, labelRequests,
                   ocr, extraction, ranking>>

\* await pinecone.createIndex({ name: indexName, ... }): the service
\* creates the index, answers that the name exists already, or fails
\* otherwise; every error is rethrown by the catch block.
RaceCreate(i) ==
    /\ indexer.calls[i].pc = "create"
    /\ IF indexer.exists
       THEN indexer' = [indexer EXCEPT !.creates = @ + 1,
                                       !.calls[i].pc = "threw",
                                       !.calls[i].error = "already exists"]
       ELSE \/ indexer' = [indexer EXCEPT !.creates = @ + 1,
                                          !.exists = TRUE,
                                          !.calls[i].pc = "poll"]
            \/ indexer' = [indexer EXCEPT !.creates = @ + 1,
                                          !.calls[i].pc = "threw",
                                          !.calls[i].error = "create failed"]
    /\ UNCHANGED <<chunker, embedder, normalizer, documents, chunkRecords,
                   vectorStore, blobs, request, limiter, tokens, labelRequests,
                   ocr, extraction, ranking>>

\* One turn of the readiness loop of call i.
RacePoll(i) ==
    /\ indexer.calls[i].pc = "poll"
    /\ PollsAgain(indexer.calls[i].isReady, indexer.calls[i].attempts)
    /\ \/ indexer' = [indexer EXCEPT !.calls[i].isReady = TRUE]
       \/ indexer' = [indexer EXCEPT !.calls[i].attempts = @ + 1]
    /\ UNCHANGED <<chunker, embedder, normalizer, documents, chunkRecords,
                   vectorStore, blobs, request, limiter, tokens, labelRequests,
                   ocr, extraction, ranking>>

\* After the loop of call i.
RaceLeavePollLoop(i) ==
    /\ indexer.calls[i].pc = "poll"
    /\ ~PollsAgain(indexer.calls[i].isReady, indexer.calls[i].attempts)
    /\ indexer' = [indexer EXCEPT
                      !.calls[i].pc = IF indexer.calls[i].isReady
                                      THEN "returned" ELSE "threw",
                      !.calls[i].error = IF indexer.calls[i].isReady
                                         THEN "none" ELSE "not ready"]
    /\ UNCHANGED <<chunker, embedder, normalizer, documents, chunkRecords,
                   vectorStore, blobs, request, limiter, tokens, labelRequests,
                   ocr, extraction, ranking>>

InitRace ==
    /\ RaceInit
    /\ chunker = Off /\ embedder = Off /\ normalizer = Off
    /\ documents = {} /\ chunkRecords = {} /\ vectorStore = {} /\ blobs = {}
    /\ request = Off
    /\ limiter = Off /\ tokens = Off /\ labelRequests = Off /\ ocr = Off
    /\ extraction = Off /\ ranking = Off

NextRace ==
    \E i \in Racers :
        \/ RaceList(i)
        \/ RaceCreate(i)
        \/ RacePoll(i)
        \/ RaceLeavePollLoop(i)

SpecRace == InitRace /\ [][NextRace]_vars

\* C36: when several requests run ensurePineconeIndex at once while the
\* index is absent, createIndex is issued at most once in all, and no call
\* fails because the index was created by another call between its listing
\* and its own create.
C36_CreateIssuedOnce ==
    /\ indexer.creates <= 1
    /\ \A i \in Racers : indexer.calls[i].error # "already exists"

\* What holds of the calls: each issues createIndex at most once, and only
\* after a listing without the index; the index is created at most once.
C36_OneCreatePerCall ==
    /\ indexer.creates <= MaxRacers
    /\ indexer.creates <=
           Cardinality({i \in Racers : indexer.calls[i].pc \in {"poll", "threw"}
                                       \/ (indexer.calls[i].pc = "returned"
                                           /\ indexer.calls[i].isReady)})
    /\ Cardinality({i \in Racers : indexer.calls[i].pc = "poll"
                                   \/ indexer.calls[i].isReady
                                   \/ indexer.calls[i].error = "not ready"}) <= 1

(***************************************************************************)
(* The metadata of the vectors of one upload, for the metadata objects a   *)
(* caller may send: JSON.parse(metadataStr) is taken as it is, any key.    *)
(***************************************************************************)
MaxVectorChunks == 2

EmptyObject == [k \in {} |-> k]

\* An object with the key when `has', and without it otherwise.
Optional(has, key, value) == IF has THEN key :> value ELSE EmptyObject

\* The document id the handler generates: uuidv4().
GeneratedDocId == <<"uuid">>

\* The parsed metadata objects: any of the keys title, caseName, docId,
\* uploadedBy and content, with a value of the caller's choice.
ParsedMetadatas ==
    {Optional(hasTitle, "title", <<"t">>) @@ Optional(hasCase, "caseName", <<"a">>)
        @@ Optional(hasDocId, "docId", <<"other">>)
        @@ Optional(hasOwner, "uploadedBy", owner)
        @@ Optional(hasContent, "content", content) :
        hasTitle \in BOOLEAN, hasCase \in BOOLEAN, hasDocId \in BOOLEAN,
        hasOwner \in BOOLEAN, owner \in Users,
        hasContent \in BOOLEAN, content \in {<<>>, <<"x">>, NumberValue}}

VectorsInit == request = [phase |-> "idle"]

\* const metadata = metadataStr ? JSON.parse(metadataStr) : {}, the user
\* of the token, and the chunks of the text.
VectorsParse ==
    /\ request.phase = "idle"
    /\ \E user \in Users, metadata \in ParsedMetadatas, n \in 1..MaxVectorChunks :
          request' = [phase |-> "parsed", user |-> user, metadata |-> metadata,
                      chunks |-> n]
    /\ UNCHANGED <<chunker, embedder, normalizer, documents, chunkRecords,
                   vectorStore, blobs, limiter, tokens, labelRequests, ocr,
                   extraction, indexer, ranking>>

\* pineconeVectors = chunks.map((chunk, i) => ({ id, values, metadata }))
VectorsBuild ==
    /\ request.phase = "parsed"
    /\ request' = [phase |-> "built", user |-> request.user,
                   metadata |-> request.metadata, chunks |-> request.chunks,
                   vectors |->
                       [k \in 1..request.chunks |->
                           [id |-> <<GeneratedDocId, k - 1>>,
                            metadata |->
                                VectorMetadata(
                                    ChunkMetadata(request.metadata, GeneratedDocId),
                                    GeneratedDocId, request.user, k - 1)]]]
    /\ UNCHANGED <<chunker, embedder, normalizer, documents, chunkRecords,
                   vectorStore, blobs, limiter, tokens, labelRequests, ocr,
                   extraction, indexer, ranking>>

InitVectors ==
    /\ VectorsInit
    /\ chunker = Off /\ embedder = Off /\ normalizer = Off
    /\ documents = {} /\ chunkRecords = {} /\ vectorStore = {} /\ blobs = {}
    /\ limiter = Off /\ tokens = Off /\ labelRequests = Off /\ ocr = Off
    /\ extraction = Off /\ indexer = Off /\ ranking = Off

NextVectors == VectorsParse \/ VectorsBuild

SpecVectors == InitVectors /\ [][NextVectors]_vars

\* The vector of chunk k carries the handler's own values in the three
\* fields.
SystemFieldsKept(k) ==
    LET m == request.vectors[k].metadata
    IN /\ m["docId"] = GeneratedDocId
       /\ m["uploadedBy"] = request.user
       /\ m["content"] = <<"chunk", GeneratedDocId, k - 1>>

\* C37: in every vector record of an upload, whatever keys the caller's
\* metadata object holds, metadata.docId is the generated document id,
\* metadata.uploadedBy the authenticated user and metadata.content the
\* content of the chunk.
C37_SystemFieldsNotOverridden ==
    request.phase = "built" =>
        \A k \in 1..Len(request.vectors) : SystemFieldsKept(k)

\* The fields are the handler's own when the caller's metadata names none
\* of docId, uploadedBy and content.
C37_WithoutThoseKeys ==
    (request.phase = "built"
        /\ DOMAIN request.metadata \cap {"docId", "uploadedBy", "content"} = {})
        => \A k \in 1..Len(request.vectors) : SystemFieldsKept(k)

(***************************************************************************)
(* The case name of an upload against the input validation of the query    *)
(* handlers: the upload takes metadata.caseName as it comes, the queries   *)
(* validate their name before they derive the namespace.                   *)
(***************************************************************************)
CaseNameLimit == 100

\* Names of CaseNameLimit characters and of one more.
LongNames == {[i \in 1..n |-> "a"] : n \in {CaseNameLimit, CaseNameLimit + 1}}

\* The names a caller may give; a name is given (the empty string is
\* replaced by the default case).
GivenNames == (RawNames \ {<<>>}) \cup LongNames

\* validateQAInput, the checks of collectionName: a non-empty string, not
\* blank, of at most 100 characters.
QANameValid(collectionName) ==
    /\ collectionName # <<>>
    /\ JsTrim(collectionName) # <<>>
    /\ ~(Len(collectionName) > CaseNameLimit)

\* validateSearchInput, the checks of caseName.
SearchNameValid(caseName) ==
    /\ caseName # <<>>
    /\ JsTrim(caseName) # <<>>
    /\ ~(Len(caseName) > CaseNameLimit)

AddressInit ==
    \E x \in GivenNames : normalizer = [phase |-> "ready", raw |-> x]

\* An upload with metadata.caseName = raw succeeds: its vectors are
\* upserted under the namespace derived with no validation of the name.
AddressUpload ==
    /\ normalizer.phase = "ready"
    /\ normalizer' = [phase |-> "uploaded", raw |-> normalizer.raw,
                      upload |-> UploadNamespace([caseName |-> normalizer.raw])]
    /\ UNCHANGED <<chunker, embedder, documents, chunkRecords, vectorStore,
                   blobs, request, limiter, tokens, labelRequests, ocr,
                   extraction, indexer, ranking>>

\* A QA request and a search request with the same name: the validation,
\* and the namespace of an accepted name.
AddressQuery ==
    /\ normalizer.phase = "uploaded"
    /\ normalizer' = [phase |-> "queried", raw |-> normalizer.raw,
                      upload |-> normalizer.upload,
                      qaStatus |-> IF QANameValid(normalizer.raw) THEN 200 ELSE 400,
                      searchStatus |-> IF SearchNameValid(normalizer.raw)
                                       THEN 200 ELSE 400,
                      qa |-> QANamespace(normalizer.raw),
                      search |-> SearchNamespace(normalizer.raw)]
    /\ UNCHANGED <<chunker, embedder, documents, chunkRecords, vectorStore,
                   blobs, request, limiter, tokens, labelRequests, ocr,
                   extraction, indexer, ranking>>

InitAddress ==
    /\ AddressInit
    /\ chunker = Off /\ embedder = Off
    /\ documents = {} /\ chunkRecords = {} /\ vectorStore = {} /\ blobs = {}
    /\ request = Off
    /\ limiter = Off /\ tokens = Off /\ labelRequests = Off /\ ocr = Off
    /\ extraction = Off /\ indexer = Off /\ ranking = Off

NextAddress == AddressUpload \/ AddressQuery

SpecAddress == InitAddress /\ [][NextAddress]_vars

\* C38: every case name an upload can succeed with is accepted by the
\* validation of the QA and the search handler, which derive from it the
\* namespace the upload wrote.
C38_UploadNamesAccepted ==
    normalizer.phase = "queried" =>
        /\ normalizer.qaStatus = 200
        /\ normalizer.searchStatus = 200
        /\ normalizer.qa = normalizer.upload
        /\ normalizer.search = normalizer.upload

\* The same for the names that are not blank and have at most 100
\* characters; and a namespace written under another name is empty or
\* longer than 100 characters, which no accepted name derives.
C38_ValidNamesAddressable ==
    normalizer.phase = "queried" =>
        /\ normalizer.qa = normalizer.upload
        /\ normalizer.search = normalizer.upload
        /\ normalizer.qaStatus = normalizer.searchStatus
        /\ (JsTrim(normalizer.raw) # <<>> /\ Len(normalizer.raw) <= 100)
               <=> normalizer.qaStatus = 200
        /\ normalizer.qaStatus = 400 =>
               (normalizer.upload = <<>> \/ Len(normalizer.raw) > 100)
        /\ normalizer.qaStatus = 200 =>
               (normalizer.qa # <<>> /\ Len(normalizer.qa) <= 100)


(***************************************************************************)
(* The answer of a label POST against what its updateOne did to the        *)
(* collection (SpecLabels).                                                *)
(***************************************************************************)
\* The operation asks for nothing new on these stored labels: an add of
\* labels the array holds already, a remove of labels it holds none of, a
\* set to the array as it is.
AsksNoChange(stored, action, labels) ==
    \/ action = "add" /\ SeqRange(labels) \subseteq SeqRange(stored)
    \/ action = "remove" /\ SeqRange(labels) \cap SeqRange(stored) = {}
    \/ action = "set" /\ labels = stored

\* The step is the updateOne of request i on a document its user owns.
UpdateOneStep(i) ==
    /\ labelRequests[i].pc = "updateOne"
    /\ labelRequests'[i].pc # "updateOne"
    /\ labelRequests'[i].updated

EndChar(chunk) == chunk.start_char + Len(chunk.content)

\* C40: the content of every chunk of chunkText is the slice of the text
\* from start_char to start_char + len(content), so that end_char is the
\* offset where the content ends in the text, and it is at most the length
\* of the text.
C40_ContentAtStoredOffsets ==
    \A i \in 1..Len(chunker.chunks) :
        LET c == chunker.chunks[i]
        IN /\ c.content = JsSlice(chunker.text, c.start_char, EndChar(c))
           /\ EndChar(c) <= Len(chunker.text)

\* What the offsets do satisfy: the content is the window from start_char
\* with the white space at both ends taken away, so end_char stays within
\* the text, and the content lies at start_char when the window starts
\* with no white space.
C40_TrimmedWindowAtStart ==
    \A i \in 1..Len(chunker.chunks) :
        LET c == chunker.chunks[i]
            window == JsSlice(chunker.text, c.start_char, c.end)
        IN /\ c.content = JsTrim(window)
           /\ EndChar(c) <= Len(chunker.text)
           /\ ~IsSpace(window[1]) =>
                 c.content = JsSlice(chunker.text, c.start_char, EndChar(c))

=============================================================================
